---- MODULE Spec2Model ----
(***************************************************************************)
(* A model of cairo-proof-parser: the proof layout calculator             *)
(* (proof-parser/src/proof_structure.rs, layout.rs), the felt codec       *)
(* (src/deser/ser.rs, serde-felt/src/deser.rs) and the proof assembler    *)
(* (proof-parser/src/json_parser.rs).                                     *)
(*                                                                         *)
(* Each component has its own specification over the shared variables:    *)
(*   SpecLayout  - ProofStructure::new on bounded protocol parameters     *)
(*   SpecCodec   - to_felts / from_felts / from_felts_with_lengths        *)
(*   SpecParse   - StarkProof::try_from and the validate_hex binary       *)
(***************************************************************************)
EXTENDS Integers, Sequences, FiniteSets, TLC

VARIABLES
    lc_pc,          \* layout calculator: "start" before the call, "done" after
    lc_params,      \* ProofParameters + ProverConfig + Layout of the call
    lc_checks,      \* build profile: TRUE when arithmetic overflow panics
    lc_proof_len,   \* the Option<usize> argument: None or Some(n)
    lc_out          \* what ProofStructure::new did: status and structure

lc_vars == <<lc_pc, lc_params, lc_checks, lc_proof_len, lc_out>>

VARIABLES
    cd_pc,          \* codec: "start", "encoded" (to_felts ran), "decoded"
    cd_shape,       \* the type T of the value, as a shape descriptor
    cd_value,       \* the value given to to_felts
    cd_felts,       \* Serializer.output after to_felts
    cd_input,       \* the felt stream given to the decoder
    cd_lengths,     \* the Lengths given to the decoder (None for from_felts)
    cd_result       \* what the decode returned, with the Deserializer it left

cd_vars == <<cd_pc, cd_shape, cd_value, cd_felts, cd_input, cd_lengths, cd_result>>

VARIABLES
    pp_pc,          \* "idle", "start", "converted" or "validated"
    pp_json,        \* the ProofJSON: parameters, hex body, annotation values
    pp_out          \* the outcome of the conversion

pp_vars == <<pp_pc, pp_json, pp_out>>

VARIABLES
    cf_pc,      \* "idle", "start", then "consts", "config" or "input"
    cf_json,    \* the public input and parameters of the proof JSON
    cf_checks,  \* the build checks integer overflow
    cf_out      \* what the call returned
cf_vars == <<cf_pc, cf_json, cf_checks, cf_out>>

VARIABLES
    ut_pc,      \* "idle", "start" or "done"
    ut_x,       \* the u32 argument of log2_if_power_of_2
    ut_out      \* the Option<u32> it returned
ut_vars == <<ut_pc, ut_x, ut_out>>

VARIABLES
    ex_pc,      \* "idle", "start", then "output" or "program"
    ex_proof,   \* the StarkProof: public_input.segments and main_page
    ex_version, \* the CairoVersion given to extract_program
    ex_checks,  \* the build checks integer overflow
    ex_out      \* what the call returned
ex_vars == <<ex_pc, ex_proof, ex_version, ex_checks, ex_out>>

VARIABLES
    rf_pc,          \* register_fact: where main and wait_for stand
    rf_account,     \* the account: the nonce the provider holds for it
    rf_proof,       \* serialized_proof, the felts to_felts returned
    rf_rest,        \* the felts the chunk iterator has not given out yet
    rf_nonce,       \* the nonce of the next transaction
    rf_hashes,      \* the hashes of the fragments published so far
    rf_sent,        \* the transactions sent, in order
    rf_call,        \* the function wait_for was called from
    rf_tick,        \* seconds one polling round lasts, its sleep included
    rf_elapsed,     \* start_fetching.elapsed(), in seconds
    rf_reply,       \* what get_transaction_status returned last
    rf_confirmed,   \* the transactions the provider reported as succeeded
    rf_out          \* what wait_for, and then main, returned
rf_vars == <<rf_pc, rf_account, rf_proof, rf_rest, rf_nonce, rf_hashes, rf_sent,
             rf_call, rf_tick, rf_elapsed, rf_reply, rf_confirmed, rf_out>>

----------------------------------------------------------------------------
(* F(x) with x worked out once, whatever F does with it.                    *)
Once(x, F(_)) == CHOOSE y \in {F(v) : v \in {x}} : TRUE

(* Option<T> as a sequence of length at most one.                           *)
None == <<>>
Some(x) == <<x>>

(* Bounds of the model.                                                    *)
MaxInnerLayers == 3     \* FRI steps after the first one
MaxDelta == 7           \* |expected_total - naive length| that is tried
MaxSeqLen == 2          \* elements of a variable-length sequence
MaxTrailing == 1        \* felts after the end of an honest proof body
MaxLayers == 2          \* FRI layer witnesses of a decoded witness
MaxSegments == 3        \* memory segments of a public input
MaxMainPage == 3        \* cells of the main page

(* Program constants.                                                      *)
first_fri_step == 16
U32Bits == 32
TableCount == 3
AddrShift == 4
FixedScalars == 3

(* The largest integer of the model's arithmetic (2^31 - 1); the inputs are *)
(* chosen so that every in-range u32/usize value stays below it.            *)
MaxInt == 2147483646 + 1

(* A count whose computation overflowed in a build without overflow checks: *)
(* the wrapped machine value, whose magnitude the model does not track.     *)
Wrapped == 0 - 1

RECURSIVE Pow2(_)
Pow2(n) == IF n = 0 THEN 1 ELSE 2 * Pow2(n - 1)

(* The sequences over S of length at most n.                                *)
RECURSIVE SeqsUpTo(_, _)
SeqsUpTo(S, n) ==
    IF n = 0 THEN {<<>>}
    ELSE LET shorter == SeqsUpTo(S, n - 1)
         IN shorter \cup {Append(s, x) : s \in shorter, x \in S}

RECURSIVE SumSeq(_)
SumSeq(s) == IF s = <<>> THEN 0 ELSE Head(s) + SumSeq(Tail(s))

(* floor((2^32 - 1) / a) for a >= 2, computed below 2^31.                   *)
U32MaxDiv(a) == 2 * (MaxInt \div a) + ((2 * (MaxInt % a) + 1) \div a)

(* u32 arithmetic as the code performs it: the mathematical result when it  *)
(* fits, Wrapped when it does not.  0 * x is 0 also for a wrapped x.        *)
Mul32(a, b) ==
    IF a = 0 \/ b = 0 THEN 0
    ELSE IF a = Wrapped \/ b = Wrapped THEN Wrapped
    ELSE IF a >= 2 /\ b > U32MaxDiv(a) THEN Wrapped
    ELSE a * b

Sub32(a, b) ==
    IF a = Wrapped \/ b = Wrapped THEN Wrapped
    ELSE IF b > a THEN Wrapped
    ELSE a - b

Add32(a, b) ==
    IF a = Wrapped \/ b = Wrapped THEN Wrapped
    ELSE IF a > MaxInt - b THEN Wrapped
    ELSE a + b

Shl32(a, s) ==
    IF s = Wrapped \/ s >= U32Bits THEN Wrapped ELSE a * Pow2(s)

(* usize arithmetic: same, 64 bits wide; sums of in-range counts fit.       *)
USub(a, b) == Sub32(a, b)
UAdd(a, b) == IF a = Wrapped \/ b = Wrapped THEN Wrapped ELSE a + b

----------------------------------------------------------------------------
(* layout.rs                                                                *)

Layouts ==
    {"dex", "plain", "recursive", "recursive_with_poseidon", "small",
     "starknet", "starknet_with_keccak"}

LayoutConstants(cd, ccs, ncf, ncs) ==
    [constraint_degree |-> cd, cpu_component_step |-> ccs,
     num_columns_first |-> ncf, num_columns_second |-> ncs]

get_consts(layout) ==
    CASE layout = "dex" -> LayoutConstants(2, 1, 21, 1)
      [] layout = "plain" -> LayoutConstants(2, 1, 6, 2)
      [] layout = "recursive" -> LayoutConstants(2, 1, 7, 3)
      [] layout = "recursive_with_poseidon" -> LayoutConstants(2, 1, 6, 2)
      [] layout = "small" -> LayoutConstants(2, 1, 23, 2)
      [] layout = "starknet" -> LayoutConstants(2, 1, 9, 1)
      [] layout = "starknet_with_keccak" -> LayoutConstants(2, 1, 12, 3)

mask_len(layout) ==
    CASE layout = "recursive" -> 133
      [] layout = "starknet" -> 271
      [] layout = "dex" -> 200
      [] layout = "plain" -> 49
      [] layout = "recursive_with_poseidon" -> 192
      [] layout = "small" -> 201
      [] layout = "starknet_with_keccak" -> 734

----------------------------------------------------------------------------
(* proof_structure.rs                                                       *)

(* fri_step_list.iter().skip(1)                                             *)
InnerSteps(params) ==
    IF params.fri_step_list = <<>> THEN <<>> ELSE Tail(params.fri_step_list)

(* expected = last_layer_degree_bound; for s in fri_step_list: expected *= 1 << s *)
RECURSIVE FoldDegree(_, _)
FoldDegree(expected, steps) ==
    IF steps = <<>> THEN expected
    ELSE FoldDegree(Mul32(expected, Shl32(1, Head(steps))), Tail(steps))

fri_degree_bound(params) ==
    FoldDegree(params.last_layer_degree_bound, params.fri_step_list)

(* leaves with the "- 16" forgotten.                                        *)
leaves_NoOffset(params) ==
    LET inner == InnerSteps(params)
    IN [i \in 1..Len(inner) |-> Shl32(1, Add32(inner[i], AddrShift))]

(* .skip(1).map(|&x| (1u32 << (x + 4)) - 16)                                *)
leaves(params) ==
    LET inner == InnerSteps(params)
    IN [i \in 1..Len(inner) |->
            Sub32(Shl32(1, Add32(inner[i], AddrShift)), first_fri_step)]

(* cumulative += *v after the first i inner steps                           *)
RECURSIVE Cumulative(_, _)
Cumulative(inner, i) ==
    IF i = 0 THEN 0 ELSE Add32(Cumulative(inner, i - 1), inner[i])

(* vec.push(first_fri_step - cumulative)                                    *)
PathLens(params) ==
    LET inner == InnerSteps(params)
    IN [i \in 1..Len(inner) |-> Sub32(first_fri_step, Cumulative(inner, i))]

(* witness with each layer's own step in place of the cumulative sum.       *)
witness_PerStep(params, add) ==
    LET inner == InnerSteps(params)
    IN [i \in 1..Len(inner) |->
            UAdd(Mul32(params.n_queries, Sub32(first_fri_step, inner[i])), add)]

(* witness(): add is authentication_additional_queries(proof_args, proof_len) *)
witness(params, add) ==
    LET lens == PathLens(params)
    IN [i \in 1..Len(lens) |-> UAdd(Mul32(params.n_queries, lens[i]), add)]

(* authentications(): constraint_polynomial_task_size + additional queries  *)
authentications(params, add) ==
    UAdd(params.constraint_polynomial_task_size, add)

expected_len(ps) ==
    LET commitment_len ==
            FixedScalars + ps.oods + ps.layer_count + ps.last_layer_degree_bound + 1
        witness_len ==
            ps.first_layer_queries + ps.composition_decommitment
            + ps.composition_leaves + TableCount * ps.authentications
        fri_len == SumSeq(ps.layer) + SumSeq(ps.witness)
    IN commitment_len + witness_len + fri_len

(* The fields of ProofStructure, given the additional-queries term.         *)
StructureOf(params, add) ==
    LET consts == get_consts(params.layout)
    IN [first_layer_queries |-> Mul32(params.n_queries, consts.num_columns_first),
        layer_count |-> USub(Len(params.fri_step_list), 1),
        composition_decommitment |->
            Mul32(params.n_queries, consts.num_columns_second),
        oods |-> USub(UAdd(mask_len(params.layout), params.log_n_cosets), 1),
        last_layer_degree_bound |-> params.last_layer_degree_bound,
        composition_leaves |-> 2 * params.n_queries,
        authentications |-> authentications(params, add),
        layer |-> leaves(params),
        witness |-> witness(params, add)]

HasWrapped(ps) ==
    \/ Wrapped \in {ps.first_layer_queries, ps.layer_count,
                    ps.composition_decommitment, ps.oods, ps.authentications}
    \/ \E i \in 1..Len(ps.layer) : ps.layer[i] = Wrapped
    \/ \E i \in 1..Len(ps.witness) : ps.witness[i] = Wrapped

(* Some operation of the call overflowed, whether or not a returned count   *)
(* shows it (0 * wrapped is 0).                                             *)
Overflowed(params, ps) ==
    \/ HasWrapped(ps)
    \/ \E i \in 1..Len(PathLens(params)) : PathLens(params)[i] = Wrapped

NoStructure ==
    [first_layer_queries |-> 0, layer_count |-> 0, composition_decommitment |-> 0,
     oods |-> 0, last_layer_degree_bound |-> 0, composition_leaves |-> 0,
     authentications |-> 0, layer |-> <<>>, witness |-> <<>>]

(* Outcomes of a call: "ok" (returned, every count the mathematical one),   *)
(* "wrapped" (returned by a build without overflow checks after an          *)
(* overflow) and "panic" (overflow check or assert_eq! aborted the call).   *)
(* add is what authentication_additional_queries returned during the call.  *)
Returned(ps, add) == [status |-> "ok", ps |-> ps, add |-> add]
ReturnedWrapped(ps, add) == [status |-> "wrapped", ps |-> ps, add |-> add]
Panic(add) == [status |-> "panic", ps |-> NoStructure, add |-> add]

NoAdditional == [status |-> "ok", value |-> 0, rem |-> 0]

RECURSIVE Pow2Mod(_, _)
Pow2Mod(e, c) == IF e = 0 THEN 1 % c ELSE (2 * Pow2Mod(e - 1, c)) % c

(* (0 - d) mod 2^64 mod c: what is left of a wrapped usize difference       *)
WrappedRem(d, c) == (Pow2Mod(2 * U32Bits, c) + c - (d % c)) % c

RECURSIVE ProofStructure_new(_, _, _)
RECURSIVE authentication_additional_queries(_, _, _)

(* AdditionalFrom dividing by the three table authentications only.        *)
AdditionalFrom_TablesOnly(without_additional, proof_len, checks) ==
    IF without_additional.status # "ok"
        THEN [status |-> "panic", value |-> 0, rem |-> 0]
    ELSE LET naive == expected_len(without_additional.ps)
         IN IF proof_len >= naive
                THEN [status |-> "ok",
                      value |-> (proof_len - naive) \div TableCount,
                      rem |-> (proof_len - naive) % TableCount]
            ELSE [status |-> "panic", value |-> 0, rem |-> 0]

(* AdditionalFrom dividing by 3 + the sum of the witness counts.            *)
AdditionalFrom_SumWitness(without_additional, proof_len, checks) ==
    IF without_additional.status # "ok"
        THEN [status |-> "panic", value |-> 0, rem |-> 0]
    ELSE LET authentication_count ==
                TableCount + SumSeq(without_additional.ps.witness)
             naive == expected_len(without_additional.ps)
         IN IF proof_len >= naive
                THEN [status |-> "ok",
                      value |-> (proof_len - naive) \div authentication_count,
                      rem |-> (proof_len - naive) % authentication_count]
            ELSE [status |-> "panic", value |-> 0, rem |-> 0]

(* The possible results of authentication_additional_queries: value is the  *)
(* returned count, rem the remainder the division dropped (Wrapped when the *)
(* naive structure itself holds wrapped counts).                            *)
AdditionalFrom(without_additional, proof_len, checks) ==
    IF without_additional.status = "panic"
        THEN [status |-> "panic", value |-> 0, rem |-> 0]
    ELSE IF without_additional.status = "wrapped"
        THEN [status |-> "wrapped", value |-> Wrapped, rem |-> Wrapped]
    ELSE LET authentication_count == TableCount + Len(without_additional.ps.witness)
             naive == expected_len(without_additional.ps)
         IN IF proof_len >= naive
                THEN [status |-> "ok",
                      value |-> (proof_len - naive) \div authentication_count,
                      rem |-> (proof_len - naive) % authentication_count]
            ELSE IF checks
                THEN [status |-> "panic", value |-> 0, rem |-> 0]
            ELSE [status |-> "wrapped", value |-> Wrapped,
                  rem |-> WrappedRem(naive - proof_len, authentication_count)]

authentication_additional_queries(params, proof_len, checks) ==
    IF proof_len = None
        THEN {NoAdditional}
    ELSE {AdditionalFrom(w, proof_len[1], checks) :
            w \in ProofStructure_new(params, None, checks)}

(* ProofStructure::new once the additional-queries term is known.           *)
NewWith(params, proof_len, checks, add) ==
    IF add.status = "panic" THEN {Panic(add)}
    ELSE LET ps == StructureOf(params, add.value)
         IN IF checks /\ Overflowed(params, ps) THEN {Panic(add)}
            ELSE IF HasWrapped(ps)
                THEN IF proof_len = None THEN {ReturnedWrapped(ps, add)}
                     \* assert_eq!(expected_len(), proof_len) on wrapped counts
                     ELSE IF add.rem = Wrapped
                        THEN {Panic(add), ReturnedWrapped(ps, add)}
                     ELSE IF add.rem = 0 THEN {ReturnedWrapped(ps, add)}
                     ELSE {Panic(add)}
            ELSE IF proof_len = None THEN {Returned(ps, add)}
            ELSE IF expected_len(ps) = proof_len[1] THEN {Returned(ps, add)}
            ELSE {Panic(add)}

ProofStructure_new(params, proof_len, checks) ==
    UNION {NewWith(params, proof_len, checks, add) :
            add \in authentication_additional_queries(params, proof_len, checks)}

----------------------------------------------------------------------------
(* The felt codec: shapes of the serde data model that the codec handles.   *)

FeltShape == [kind |-> "felt"]
U64Shape == [kind |-> "u64"]
SeqOf(e) == [kind |-> "seq", elem |-> e]
(* A sequence written through serialize_seq(None): one whose length is not  *)
(* known before its elements are written (an iterator without an exact      *)
(* size hint).                                                              *)
IterOf(e) == [kind |-> "iter", elem |-> e]
TupleOf(es) == [kind |-> "tuple", elems |-> es]
TupleStructOf(es) == [kind |-> "tuple_struct", elems |-> es]
StructOf(names, es) == [kind |-> "struct", fields |-> names, elems |-> es]

(* The record types of the codec's tests.                                   *)
Basic == StructOf(<<"a", "b">>, <<FeltShape, FeltShape>>)
Nested == StructOf(<<"a", "b", "c">>, <<FeltShape, Basic, FeltShape>>)
WithSequence == StructOf(<<"a", "b">>, <<SeqOf(FeltShape), FeltShape>>)
WithArray == StructOf(<<"a", "b">>, <<TupleOf(<<FeltShape, FeltShape>>), FeltShape>>)
Test == StructOf(<<"int", "seq">>, <<U64Shape, SeqOf(FeltShape)>>)
Pair == TupleStructOf(<<FeltShape, FeltShape>>)
Streamed == StructOf(<<"a", "b">>, <<IterOf(FeltShape), FeltShape>>)

(* Strings of digits: the text forms a felt passes through.                 *)
RECURSIVE Digits(_, _)
Digits(n, base) ==
    IF n < base THEN <<n>> ELSE Append(Digits(n \div base, base), n % base)

RECURSIVE FromDigits(_, _)
FromDigits(ds, base) ==
    IF ds = <<>> THEN 0
    ELSE FromDigits(SubSeq(ds, 1, Len(ds) - 1), base) * base + ds[Len(ds)]

(* felt.to_string(): the decimal text                                       *)
to_string(felt) == [prefix |-> "", digits |-> Digits(felt, 10)]
(* format!("{:#x}", felt): the 0x-prefixed hexadecimal text                 *)
format_hex(felt) == [prefix |-> "0x", digits |-> Digits(felt, 16)]

(* FieldElement::from_dec_str and str::parse::<uN>(): decimal digits only   *)
from_dec_str(str) ==
    IF str.prefix = "" /\ str.digits # <<>>
          /\ \A i \in 1..Len(str.digits) : str.digits[i] < 10
        THEN Some(FromDigits(str.digits, 10))
    ELSE None

(* The felt visitor's visit_str: strips "0x" and reads hexadecimal          *)
from_hex_str(str) ==
    IF str.prefix = "0x" /\ str.digits # <<>>
        THEN Some(FromDigits(str.digits, 16))
    ELSE None

----------------------------------------------------------------------------
(* src/deser/ser.rs: the Serializer; a result is [err, output].             *)

SerOk(output) == [err |-> "", output |-> output]
SerErr(e, output) == [err |-> e, output |-> output]

serialize_u64(v, output) == SerOk(Append(output, v))

serialize_str(v, output) ==
    LET felt == from_dec_str(v)
    IN IF felt = None THEN SerErr("UnparsableString", output)
       ELSE SerOk(Append(output, felt[1]))

serialize_seq(len, output) ==
    IF len = None THEN SerErr("LengthNotKnownAtSerialization", output)
    ELSE SerOk(Append(output, len[1]))

serialize_tuple(len, output) == SerOk(output)

serialize_tuple_struct(len, output) == serialize_seq(Some(len), output)

serialize_struct(len, output) == serialize_tuple(len, output)

RECURSIVE serialize(_, _, _)
RECURSIVE SerializeElements(_, _, _, _)

(* serialize_element / serialize_field on the elements from index i on      *)
SerializeElements(shapes, values, i, ser) ==
    IF ser.err # "" \/ i > Len(values) THEN ser
    ELSE SerializeElements(shapes, values, i + 1,
                           serialize(shapes[i], values[i], ser.output))

(* value.serialize(&mut serializer), by the shape of the value              *)
serialize(shape, v, output) ==
    CASE shape.kind = "felt" -> serialize_str(to_string(v), output)
      [] shape.kind = "u64" -> serialize_u64(v, output)
      [] shape.kind = "seq" ->
            SerializeElements([i \in 1..Len(v) |-> shape.elem], v, 1,
                              serialize_seq(Some(Len(v)), output))
      [] shape.kind = "iter" ->
            SerializeElements([i \in 1..Len(v) |-> shape.elem], v, 1,
                              serialize_seq(None, output))
      [] shape.kind = "tuple" ->
            SerializeElements(shape.elems, v, 1, serialize_tuple(Len(v), output))
      [] shape.kind = "tuple_struct" ->
            SerializeElements(shape.elems, v, 1,
                              serialize_tuple_struct(Len(v), output))
      [] shape.kind = "struct" ->
            SerializeElements(shape.elems, v, 1, serialize_struct(Len(v), output))

to_felts(shape, value) == serialize(shape, value, <<>>)

----------------------------------------------------------------------------
(* serde-felt/src/deser.rs: the Deserializer [input, lengths, next_length]. *)

Deserializer_from_felts(input) ==
    [input |-> input, lengths |-> None, next_length |-> None]

Deserializer_from_felts_with_lengths(input, lengths) ==
    [input |-> input, lengths |-> Some(lengths), next_length |-> None]

DeOk(value, de) == [err |-> "", value |-> value, de |-> de]
DeErr(e, de) == [err |-> e, value |-> <<>>, de |-> de]

(* take that reads a zero felt past the end of the stream.                  *)
take_PastEnd(de) ==
    IF de.input = <<>> THEN DeOk(0, de)
    ELSE DeOk(Head(de.input), [de EXCEPT !.input = Tail(@)])

take(de) ==
    IF de.input = <<>> THEN DeErr("NoDataLeft", de)
    ELSE DeOk(Head(de.input), [de EXCEPT !.input = Tail(@)])

(* get_length that leaves the pending length in the slot.                   *)
get_length_Ignore(de) == DeOk(None, de)

get_length(de) == DeOk(de.next_length, [de EXCEPT !.next_length = None])

(* apply_override that puts the next length in the slot whatever it holds.  *)
apply_override_Overwrite(de, name) ==
    IF de.lengths # None /\ name \in DOMAIN de.lengths[1]
        THEN LET length == de.lengths[1][name]
             IN IF length = <<>> THEN DeErr("MoreLengthsThanVectors", de)
                ELSE DeOk(<<>>,
                          [de EXCEPT
                              !.next_length = Some(Head(length)),
                              !.lengths = Some([de.lengths[1] EXCEPT
                                                   ![name] = Tail(length)])])
    ELSE DeOk(<<>>, de)

(* apply_override that takes the entry registered last.                     *)
apply_override_Lifo(de, name) ==
    IF de.lengths # None /\ name \in DOMAIN de.lengths[1]
        THEN LET length == de.lengths[1][name]
             IN IF length = <<>> THEN DeErr("MoreLengthsThanVectors", de)
                ELSE IF de.next_length # None
                    THEN DeErr("LengthSetButNotConsumed", de)
                ELSE DeOk(<<>>,
                          [de EXCEPT
                              !.next_length = Some(length[Len(length)]),
                              !.lengths = Some([de.lengths[1] EXCEPT
                                                   ![name] = SubSeq(length, 1,
                                                                    Len(length) - 1)])])
    ELSE DeOk(<<>>, de)

apply_override(de, name) ==
    IF de.lengths # None /\ name \in DOMAIN de.lengths[1]
        THEN LET length == de.lengths[1][name]
             IN IF length = <<>> THEN DeErr("MoreLengthsThanVectors", de)
                ELSE IF de.next_length # None
                    THEN DeErr("LengthSetButNotConsumed", de)
                ELSE DeOk(<<>>,
                          [de EXCEPT
                              !.next_length = Some(Head(length)),
                              !.lengths = Some([de.lengths[1] EXCEPT
                                                   ![name] = Tail(length)])])
    ELSE DeOk(<<>>, de)

deserialize_u64(de) ==
    Once(take(de), LAMBDA t :
        IF t.err # "" THEN t
        ELSE LET value == from_dec_str(to_string(t.value))
             IN IF value = None THEN DeErr("ValueExceededRange", t.de)
                ELSE DeOk(value[1], t.de))

(* deserialize_str that drops the pending length.                           *)
deserialize_str_ClearsSlot(de) ==
    Once(take(de), LAMBDA t :
        IF t.err # "" THEN t
        ELSE LET felt == from_hex_str(format_hex(t.value))
             IN IF felt = None THEN DeErr("Message", t.de)
                ELSE DeOk(felt[1], [t.de EXCEPT !.next_length = None]))

(* deserialize_str, then the felt visitor on the string it is handed        *)
deserialize_str(de) ==
    Once(take(de), LAMBDA t :
        IF t.err # "" THEN t
        ELSE LET felt == from_hex_str(format_hex(t.value))
             IN IF felt = None THEN DeErr("Message", t.de)
                ELSE DeOk(felt[1], t.de))

(* DeserSeq::new that reads the slot and leaves the length in it.           *)
DeserSeq_new_Peek(de) == [de |-> de, left |-> de.next_length]

(* DeserSeq [de, left]                                                      *)
DeserSeq_new(de) ==
    Once(get_length(de), LAMBDA len : [de |-> len.de, left |-> len.value])

(* new_with_len that also reads a length prefix off the stream.             *)
DeserSeq_new_with_len_Prefixed(de, len) ==
    [de |-> take(de).de, left |-> Some(len)]

DeserSeq_new_with_len(de, len) == [de |-> de, left |-> Some(len)]

RECURSIVE deserialize(_, _)
RECURSIVE next_element_seed(_, _)
RECURSIVE VisitNext(_, _)
RECURSIVE VisitTimes(_, _, _)
RECURSIVE VisitSeq(_, _)
RECURSIVE VisitTuple(_, _, _)
RECURSIVE VisitMap(_, _, _)

(* SeqAccess::next_element_seed: value is None at the end of the sequence,  *)
(* Some(element) otherwise; de holds the DeserSeq after the call.           *)
next_element_seed(seq, elem) ==
    IF seq.left # None
        THEN IF seq.left[1] > 0
                THEN Once(deserialize(elem, seq.de), LAMBDA r :
                        IF r.err # "" THEN DeErr(r.err, [seq EXCEPT !.de = r.de])
                        ELSE DeOk(Some(r.value),
                                  [de |-> r.de, left |-> Some(seq.left[1] - 1)]))
             ELSE DeOk(None, seq)
    ELSE Once(take(seq.de), LAMBDA t :
            IF t.err # "" THEN DeErr(t.err, seq)
            ELSE LET len == from_dec_str(to_string(t.value))
                 IN IF len = None
                        THEN DeErr("InvalidArrayLen", [seq EXCEPT !.de = t.de])
                    ELSE next_element_seed([de |-> t.de, left |-> len], elem))

(* A visitor's progress: the access it reads from, the elements it has      *)
(* collected, and the error that stopped it.                                *)
Visiting(access, acc) == [access |-> access, acc |-> acc, err |-> ""]

(* One turn of the Vec visitor's loop, on a progress that may hold an error *)
(* already: next_element_seed, and the element pushed.                      *)
VisitNext(elem, v) ==
    IF v.err # "" THEN v
    ELSE Once(next_element_seed(v.access, elem), LAMBDA r :
            [access |-> r.de, err |-> r.err,
             acc |-> IF r.err = "" /\ r.value # None
                         THEN Append(v.acc, r.value[1]) ELSE v.acc])

(* n turns of the loop one after the other, split in halves so that the     *)
(* evaluation nests by the logarithm of n.                                  *)
VisitTimes(elem, v, n) ==
    IF n = 0 THEN v
    ELSE IF n = 1 THEN VisitNext(elem, v)
    ELSE Once(VisitTimes(elem, v, n \div 2), LAMBDA half :
            IF half.err # "" THEN half
            ELSE VisitTimes(elem, half, n - (n \div 2)))

(* The Vec visitor: elements until next_element_seed returns None. The      *)
(* first call fixes the count that is left (read off the stream unless an   *)
(* override gave it); that many calls more give the other elements and the  *)
(* closing None.                                                            *)
VisitSeq(elem, v) ==
    Once(VisitNext(elem, v), LAMBDA first :
        Once(IF first.err # "" \/ first.access.left = None THEN first
             ELSE VisitTimes(elem, first, first.access.left[1]),
             LAMBDA last :
                IF last.err # "" THEN DeErr(last.err, last.access.de)
                ELSE DeOk(last.acc, last.access.de)))

(* The tuple and array visitors: one next_element_seed per element          *)
VisitTuple(elems, i, v) ==
    IF i > Len(elems) THEN DeOk(v.acc, v.access.de)
    ELSE Once(next_element_seed(v.access, elems[i]), LAMBDA r :
            IF r.err # "" THEN DeErr(r.err, r.de.de)
            ELSE IF r.value = None THEN DeErr("Message", r.de.de)
            ELSE VisitTuple(elems, i + 1,
                            Visiting(r.de, Append(v.acc, r.value[1]))))

(* The derived struct visitor over DeserStruct [de, fields, index]:         *)
(* next_key_seed (apply_override on the key), then next_value_seed          *)
VisitMap(shape, index, v) ==
    IF index = Len(shape.fields) THEN DeOk(v.acc, v.access)
    ELSE Once(apply_override(v.access, shape.fields[index + 1]), LAMBDA k :
            IF k.err # "" THEN k
            ELSE Once(deserialize(shape.elems[index + 1], k.de), LAMBDA r :
                    IF r.err # "" THEN r
                    ELSE VisitMap(shape, index + 1,
                                  Visiting(r.de, Append(v.acc, r.value)))))

(* T::deserialize(&mut deserializer), by the shape of T                     *)
deserialize(shape, de) ==
    CASE shape.kind = "felt" -> deserialize_str(de)
      [] shape.kind = "u64" -> deserialize_u64(de)
      [] shape.kind \in {"seq", "iter"} ->
            VisitSeq(shape.elem, Visiting(DeserSeq_new(de), <<>>))
      [] shape.kind \in {"tuple", "tuple_struct"} ->
            VisitTuple(shape.elems, 1,
                       Visiting(DeserSeq_new_with_len(de, Len(shape.elems)), <<>>))
      [] shape.kind = "struct" -> VisitMap(shape, 0, Visiting(de, <<>>))

(* from_felts_inner that refuses input left over after the value.           *)
from_felts_inner_Strict(shape, s, lengths) ==
    Once(IF lengths # None
             THEN Deserializer_from_felts_with_lengths(s, lengths[1])
         ELSE Deserializer_from_felts(s),
         LAMBDA deserializer :
            Once(deserialize(shape, deserializer), LAMBDA t :
                IF t.err = "" /\ t.de.input # <<>> THEN DeErr("DataLeft", t.de)
                ELSE t))

(* The result keeps the Deserializer as the decode left it; input left      *)
(* over and unused lengths are tolerated.                                   *)
from_felts_inner(shape, s, lengths) ==
    Once(IF lengths # None
             THEN Deserializer_from_felts_with_lengths(s, lengths[1])
         ELSE Deserializer_from_felts(s),
         LAMBDA deserializer : deserialize(shape, deserializer))

from_felts(shape, s) == from_felts_inner(shape, s, None)

from_felts_with_lengths(shape, s, lengths) ==
    from_felts_inner(shape, s, Some(lengths))

----------------------------------------------------------------------------
(* proof-parser/src/json_parser.rs: the proof assembler.                    *)

(* The record shapes a proof body decodes into, in the order the fields are *)
(* built in stark_unsent_commitment and stark_witness.                      *)
TracesUnsentCommitment ==
    StructOf(<<"original", "interaction">>, <<FeltShape, FeltShape>>)

FriUnsentCommitment ==
    StructOf(<<"inner_layers", "last_layer_coefficients">>,
             <<SeqOf(FeltShape), SeqOf(FeltShape)>>)

StarkUnsentCommitment ==
    StructOf(<<"traces", "composition", "oods_values", "fri",
               "proof_of_work_nonce">>,
             <<TracesUnsentCommitment, FeltShape, SeqOf(FeltShape),
               FriUnsentCommitment, FeltShape>>)

FriLayerWitness ==
    StructOf(<<"leaves", "table_witness">>, <<SeqOf(FeltShape), SeqOf(FeltShape)>>)

FriWitness == StructOf(<<"layers">>, <<SeqOf(FriLayerWitness)>>)

StarkWitness ==
    StructOf(<<"original_leaves", "interaction_leaves",
               "original_authentications", "interaction_authentications",
               "composition_leaves", "composition_authentications",
               "fri_witness">>,
             <<SeqOf(FeltShape), SeqOf(FeltShape), SeqOf(FeltShape),
               SeqOf(FeltShape), SeqOf(FeltShape), SeqOf(FeltShape),
               FriWitness>>)

(* (StarkUnsentCommitment, StarkWitness)                                    *)
DecodedPair == TupleOf(<<StarkUnsentCommitment, StarkWitness>>)

(* FieldElement::from_hex_be(&bigint.to_str_radix(16))                      *)
bigint_to_fe(bigint) == FromDigits(Digits(bigint, 16), 16)

bigints_to_fe(bigints) == [i \in 1..Len(bigints) |-> bigint_to_fe(bigints[i])]

stark_unsent_commitment(annotations) ==
    << <<bigint_to_fe(annotations.original_commitment_hash),
         bigint_to_fe(annotations.interaction_commitment_hash)>>,
       bigint_to_fe(annotations.composition_commitment_hash),
       bigints_to_fe(annotations.oods_values),
       <<bigints_to_fe(annotations.fri_layers_commitments),
         bigints_to_fe(annotations.fri_last_layer_coefficients)>>,
       bigint_to_fe(annotations.proof_of_work_nonce) >>

stark_witness(annotations) ==
    << bigints_to_fe(annotations.original_leaves),
       bigints_to_fe(annotations.interaction_leaves),
       bigints_to_fe(annotations.original_authentications),
       bigints_to_fe(annotations.interaction_authentications),
       bigints_to_fe(annotations.composition_leaves),
       bigints_to_fe(annotations.composition_authentications),
       << [i \in 1..Len(annotations.fri_witnesses) |->
              <<bigints_to_fe(annotations.fri_witnesses[i].leaves),
                bigints_to_fe(annotations.fri_witnesses[i].authentications)>>] >> >>

(* HexProof::try_from: one felt per 32-byte chunk, read big-endian          *)
HexProof_try_from(proof_hex) ==
    [i \in 1..Len(proof_hex) |-> FromDigits(Digits(proof_hex[i], 256), 256)]

(* log2_if_power_of_2(x) is Some                                            *)
RECURSIVE IsPowerOf2(_)
IsPowerOf2(x) ==
    IF x = 0 THEN FALSE
    ELSE IF x = 1 THEN TRUE
    ELSE x % 2 = 0 /\ IsPowerOf2(x \div 2)

(* stark_config and public_input return Ok: the public input is usable and *)
(* the last layer degree bound is a power of two.                           *)
ConfigOk(json) ==
    json.public_input_ok /\ IsPowerOf2(json.params.last_layer_degree_bound)

(* The length overrides try_from builds from the proof structure.           *)
LengthsOf(ps) ==
    [oods_values |-> <<ps.oods>>,
     inner_layers |-> <<ps.layer_count>>,
     last_layer_coefficients |-> <<ps.last_layer_degree_bound>>,
     original_leaves |-> <<ps.first_layer_queries>>,
     original_authentications |-> <<ps.authentications>>,
     interaction_leaves |-> <<ps.composition_decommitment>>,
     interaction_authentications |-> <<ps.authentications>>,
     composition_leaves |-> <<ps.composition_leaves>>,
     composition_authentications |-> <<ps.authentications>>,
     fri_witness |-> <<Len(ps.witness)>>,
     leaves |-> ps.layer,
     table_witness |-> ps.witness]

NoProof == [unsent_commitment |-> <<>>, witness |-> <<>>]

Converted(status, proof, ps, left) ==
    [status |-> status, proof |-> proof, ps |-> ps, left |-> left]

(* StarkProof::try_from(ProofJSON) on the structure `structure` that        *)
(* ProofStructure::new returned: status "ok" with the proof, "err" for a    *)
(* returned error, "panic"; left is the input the decode left unread.       *)
try_from_With(json, structure) ==
    IF ~ConfigOk(json) THEN Converted("err", NoProof, NoStructure, <<>>)
    ELSE IF structure.status = "panic"
        THEN Converted("panic", NoProof, NoStructure, <<>>)
    ELSE Once(from_felts_with_lengths(DecodedPair,
                                      HexProof_try_from(json.proof_hex),
                                      LengthsOf(structure.ps)),
              LAMBDA r :
                IF r.err # "" THEN Converted("err", NoProof, structure.ps, r.de.input)
                ELSE Converted("ok",
                               [unsent_commitment |-> r.value[1],
                                witness |-> r.value[2]],
                               structure.ps, r.de.input))

try_from(json) ==
    {try_from_With(json, structure) :
        structure \in UNION {ProofStructure_new(json.params, None, checks) :
                                checks \in BOOLEAN}}

proof_from_annotations(json) ==
    IF ~ConfigOk(json) THEN Converted("err", NoProof, NoStructure, <<>>)
    ELSE Converted("ok",
                   [unsent_commitment |-> stark_unsent_commitment(json.annotations),
                    witness |-> stark_witness(json.annotations)],
                   NoStructure, <<>>)

(* validate_hex main on the outcome `parsed` of parse(input)                *)
validate_hex_With(json, parsed) ==
    IF parsed.status # "ok" THEN parsed
    ELSE Once(proof_from_annotations(json), LAMBDA annotated :
            IF annotated.status # "ok" THEN annotated
            ELSE IF parsed.proof = annotated.proof
                THEN Converted("consistent", parsed.proof, parsed.ps, parsed.left)
            ELSE Converted("panic", parsed.proof, parsed.ps, parsed.left))

validate_hex(json) == {validate_hex_With(json, parsed) : parsed \in try_from(json)}

----------------------------------------------------------------------------
(* Inputs of the codec.                                                     *)

FeltValues == {0, 1, 2, 11, 12, 42, 43}
U64Values == {0, 1, 2}
CodecShapes == {Basic, Nested, WithSequence, WithArray, Test, Pair, Streamed}

RECURSIVE ValuesOf(_)
RECURSIVE ProductOf(_, _)

(* The tuples whose i-th component is a value of shapes[i], up to index n   *)
ProductOf(shapes, n) ==
    IF n = 0 THEN {<<>>}
    ELSE {Append(t, x) : t \in ProductOf(shapes, n - 1), x \in ValuesOf(shapes[n])}

ValuesOf(shape) ==
    CASE shape.kind = "felt" -> FeltValues
      [] shape.kind = "u64" -> U64Values
      [] shape.kind \in {"seq", "iter"} ->
            SeqsUpTo(ValuesOf(shape.elem), MaxSeqLen)
      [] OTHER -> ProductOf(shape.elems, Len(shape.elems))

(* Records decoded from a stream without length prefixes, as a proof body   *)
(* is: a witness whose field fri_witness is a record (StarkWitness's last   *)
(* field), and a record with an array before its sequence.                  *)
WitnessTail == StructOf(<<"fri_witness">>, <<FriWitness>>)
ArrayThenSeq ==
    StructOf(<<"a", "b">>, <<TupleOf(<<FeltShape, FeltShape>>), SeqOf(FeltShape)>>)

BodyShapes == {WitnessTail, ArrayThenSeq}

LayerValues ==
    {<<leaves_, table_witness>> :
        leaves_ \in {<<>>, <<11>>, <<11, 12>>},
        table_witness \in {<<>>, <<42>>, <<42, 43>>}}

BodyValues(shape) ==
    IF shape = WitnessTail
        THEN {<< <<layers>> >> : layers \in SeqsUpTo(LayerValues, MaxLayers)}
    ELSE {<< <<1, 2>>, b >> : b \in SeqsUpTo({11, 12}, MaxSeqLen)}

(* The felts of a value in order, no length prefix written.                 *)
RECURSIVE Body(_, _)
RECURSIVE BodyAll(_, _, _)
BodyAll(shapes, values, n) ==
    IF n = 0 THEN <<>>
    ELSE BodyAll(shapes, values, n - 1) \o Body(shapes[n], values[n])

Body(shape, v) ==
    CASE shape.kind \in {"felt", "u64"} -> <<v>>
      [] shape.kind \in {"seq", "iter"} ->
            BodyAll([i \in 1..Len(v) |-> shape.elem], v, Len(v))
      [] OTHER -> BodyAll(shape.elems, v, Len(v))

(* The lengths of the leaves and of the table_witness of each layer.        *)
LeavesOf(layers) == [i \in 1..Len(layers) |-> Len(layers[i][1])]
TableWitnessOf(layers) == [i \in 1..Len(layers) |-> Len(layers[i][2])]

(* A list of lengths as registered, and registered wrongly: an entry short, *)
(* an entry more, and in the opposite order.                                *)
Reverse(s) == [i \in 1..Len(s) |-> s[Len(s) + 1 - i]]
ListsAround(list) ==
    {list, Append(list, 1), Reverse(list)}
    \cup (IF list = <<>> THEN {} ELSE {SubSeq(list, 1, Len(list) - 1)})

(* The override tables a body is decoded with: for a witness the lists that *)
(* try_from registers (fri_witness, leaves, table_witness) and lists around *)
(* them; for a record whose first field is a scalar or an array, one length *)
(* registered for that field.                                               *)
BodyTables(shape, value) ==
    IF shape = WitnessTail
        THEN LET layers == value[1][1]
             IN {[fri_witness |-> <<count>>, leaves |-> l, table_witness |-> t] :
                    count \in {n \in (Len(layers) - 1)..(Len(layers) + 1) : n >= 0},
                    l \in ListsAround(LeavesOf(layers)),
                    t \in ListsAround(TableWitnessOf(layers))}
    ELSE IF shape \in {Test, ArrayThenSeq}
        THEN {[n \in {shape.fields[1]} |-> <<len>>] : len \in 0..MaxSeqLen}
    ELSE {}

(* The override tables tried: none, or one list for one field name.         *)
OverrideNames == {"a", "b", "seq"}
LengthMaps ==
    {[n \in {} |-> <<>>]}
    \cup {[n \in {name} |-> <<len>>] : name \in OverrideNames, len \in 0..MaxSeqLen}

(* The streams tried: the encoding, and the encoding without its first felt *)
Streams(felts) == {felts} \cup (IF felts = <<>> THEN {} ELSE {Tail(felts)})

NoResult == DeErr("", Deserializer_from_felts(<<>>))

CodecIdle ==
    /\ cd_pc = "idle"
    /\ cd_shape = Basic
    /\ cd_value = <<>>
    /\ cd_felts = <<>>
    /\ cd_input = <<>>
    /\ cd_lengths = None
    /\ cd_result = NoResult

CodecInit ==
    /\ cd_pc = "start"
    /\ \/ cd_shape \in CodecShapes /\ cd_value \in ValuesOf(cd_shape)
       \/ cd_shape \in BodyShapes /\ cd_value \in BodyValues(cd_shape)
    /\ cd_felts = <<>>
    /\ cd_input = <<>>
    /\ cd_lengths = None
    /\ cd_result = NoResult

(* to_felts(&value)                                                         *)
ToFelts ==
    /\ cd_pc = "start"
    /\ cd_felts' = to_felts(cd_shape, cd_value).output
    /\ cd_pc' = "encoded"
    /\ UNCHANGED <<cd_shape, cd_value, cd_input, cd_lengths, cd_result,
                   lc_vars, pp_vars, cf_vars,
                   ut_vars, ex_vars, rf_vars>>

(* from_felts::<T>(&felts) on the encoding                                  *)
FromFelts ==
    /\ cd_pc = "encoded"
    /\ cd_input' = cd_felts
    /\ cd_lengths' = None
    /\ cd_result' = from_felts(cd_shape, cd_felts)
    /\ cd_pc' = "decoded"
    /\ UNCHANGED <<cd_shape, cd_value, cd_felts, lc_vars, pp_vars, cf_vars,
                   ut_vars, ex_vars, rf_vars>>

(* from_felts_with_lengths::<T>(&stream, lengths)                           *)
FromFeltsWithLengths ==
    /\ cd_pc = "encoded"
    /\ \E stream \in Streams(cd_felts), lengths \in LengthMaps :
            /\ cd_input' = stream
            /\ cd_lengths' = Some(lengths)
            /\ cd_result' = from_felts_with_lengths(cd_shape, stream, lengths)
    /\ cd_pc' = "decoded"
    /\ UNCHANGED <<cd_shape, cd_value, cd_felts, lc_vars, pp_vars, cf_vars,
                   ut_vars, ex_vars, rf_vars>>

(* The override tables with two lengths: both for one field name, or one    *)
(* for each of two names.                                                   *)
OverrideTables ==
    {[n \in {"a"} |-> <<first, second>>] :
        first \in 1..MaxSeqLen, second \in 1..MaxSeqLen}
    \cup {[n \in {"a", "b"} |-> IF n = "a" THEN <<first>> ELSE <<second>>] :
            first \in 1..MaxSeqLen, second \in 1..MaxSeqLen}

(* from_felts_with_lengths::<T>(&felts, lengths) with such a table          *)
FromFeltsWithOverrides ==
    /\ cd_pc = "encoded"
    /\ \E lengths \in OverrideTables :
            /\ cd_input' = cd_felts
            /\ cd_lengths' = Some(lengths)
            /\ cd_result' = from_felts_with_lengths(cd_shape, cd_felts, lengths)
    /\ cd_pc' = "overridden"
    /\ UNCHANGED <<cd_shape, cd_value, cd_felts, lc_vars, pp_vars, cf_vars,
                   ut_vars, ex_vars, rf_vars>>

(* from_felts::<T>(&stream) on the encoding cut short                       *)
FromFeltsTruncated ==
    /\ cd_pc = "encoded"
    /\ \E n \in 0..(Len(cd_felts) - 1) :
            /\ cd_input' = SubSeq(cd_felts, 1, n)
            /\ cd_lengths' = None
            /\ cd_result' = from_felts(cd_shape, SubSeq(cd_felts, 1, n))
    /\ cd_pc' = "truncated"
    /\ UNCHANGED <<cd_shape, cd_value, cd_felts, lc_vars, pp_vars, cf_vars,
                   ut_vars, ex_vars, rf_vars>>

(* The decodes of the encoding that succeed: without overrides, with an     *)
(* empty table, and of the encoding without its first felt with a table.    *)
Decodable(shape, felts) ==
    {c \in ({[stream |-> felts, lengths |-> None],
              [stream |-> felts, lengths |-> Some([n \in {} |-> <<>>])]}
            \cup {[stream |-> Tail(felts), lengths |-> Some(l)] :
                    l \in IF felts = <<>> THEN {} ELSE LengthMaps}) :
        from_felts_inner(shape, c.stream, c.lengths).err = ""}

TrailingFelts == {0, 2}

(* from_felts / from_felts_with_lengths on a stream that decodes, followed  *)
(* by felts that belong to nothing                                          *)
FromFeltsTrailing ==
    /\ cd_pc = "encoded"
    /\ \E c \in Decodable(cd_shape, cd_felts),
          t \in SeqsUpTo(TrailingFelts, MaxTrailing) \ {<<>>} :
            /\ cd_input' = c.stream \o t
            /\ cd_lengths' = c.lengths
            /\ cd_result' = from_felts_inner(cd_shape, c.stream \o t, c.lengths)
    /\ cd_pc' = "trailing"
    /\ UNCHANGED <<cd_shape, cd_value, cd_felts, lc_vars, pp_vars, cf_vars,
                   ut_vars, ex_vars, rf_vars>>

(* from_felts_with_lengths::<T>(&body, lengths) on the felts of the value    *)
(* without length prefixes                                                  *)
FromFeltsBody ==
    /\ cd_pc = "encoded"
    /\ \E lengths \in BodyTables(cd_shape, cd_value) :
            /\ cd_input' = Body(cd_shape, cd_value)
            /\ cd_lengths' = Some(lengths)
            /\ cd_result' = from_felts_with_lengths(cd_shape, Body(cd_shape, cd_value),
                                                    lengths)
    /\ cd_pc' = "body"
    /\ UNCHANGED <<cd_shape, cd_value, cd_felts, lc_vars, pp_vars, cf_vars,
                   ut_vars, ex_vars, rf_vars>>

CodecNext ==
    \/ ToFelts
    \/ FromFelts
    \/ FromFeltsWithLengths
    \/ FromFeltsWithOverrides
    \/ FromFeltsTruncated
    \/ FromFeltsTrailing
    \/ FromFeltsBody

----------------------------------------------------------------------------
(* Inputs of the proof assembler.                                           *)

ParseParamSets ==
    [fri_step_list : {<<0>>, <<0, 1>>, <<0, 1, 2>>},
     last_layer_degree_bound : {2, 3},
     n_queries : {0, 2},
     log_n_cosets : {0},
     constraint_polynomial_task_size : {1},
     layout : Layouts]

(* The structure try_from computes for the parameters.                      *)
StructureFor(params) ==
    (CHOOSE w \in ProofStructure_new(params, None, TRUE) : TRUE).ps

(* A proof body of the length the parameters call for: felt i holds i.      *)
HonestHex(params) == [i \in 1..expected_len(StructureFor(params)) |-> i]

(* The bodies tried: the honest one, short by one felt, or with up to       *)
(* MaxTrailing felts after it.                                              *)
HexBodies(params) ==
    LET honest == HonestHex(params)
    IN {SubSeq(honest, 1, Len(honest) - 1)}
       \cup {honest \o [i \in 1..k |-> Len(honest) + i] : k \in 0..MaxTrailing}

(* The annotation values of the proof `pair` that a body holds.             *)
AnnotationsOf(pair) ==
    [original_commitment_hash |-> pair[1][1][1],
     interaction_commitment_hash |-> pair[1][1][2],
     composition_commitment_hash |-> pair[1][2],
     oods_values |-> pair[1][3],
     fri_layers_commitments |-> pair[1][4][1],
     fri_last_layer_coefficients |-> pair[1][4][2],
     proof_of_work_nonce |-> pair[1][5],
     original_leaves |-> pair[2][1],
     interaction_leaves |-> pair[2][2],
     original_authentications |-> pair[2][3],
     interaction_authentications |-> pair[2][4],
     composition_leaves |-> pair[2][5],
     composition_authentications |-> pair[2][6],
     fri_witnesses |-> [i \in 1..Len(pair[2][7][1]) |->
                           [leaves |-> pair[2][7][1][i][1],
                            authentications |-> pair[2][7][1][i][2]]]]

HonestAnnotations(params) ==
    Once(from_felts_with_lengths(DecodedPair, HonestHex(params),
                                 LengthsOf(StructureFor(params))),
         LAMBDA r : AnnotationsOf(r.value))

(* The annotations tried: the honest ones, or one value of them changed.    *)
AnnotationSets(params) ==
    Once(HonestAnnotations(params), LAMBDA honest :
        {honest,
         [honest EXCEPT !.composition_commitment_hash = @ + 1],
         [honest EXCEPT !.oods_values[1] = @ + 1],
         [honest EXCEPT !.proof_of_work_nonce = @ + 1]})

ParseIdle ==
    /\ pp_pc = "idle"
    /\ pp_json = <<>>
    /\ pp_out = Converted("none", NoProof, NoStructure, <<>>)

ParseInit ==
    /\ pp_pc = "start"
    /\ \E params \in ParseParamSets :
          pp_json \in [params : {params},
                       public_input_ok : BOOLEAN,
                       proof_hex : HexBodies(params),
                       annotations : AnnotationSets(params)]
    /\ pp_out = Converted("none", NoProof, NoStructure, <<>>)

(* StarkProof::try_from(proof_json)                                         *)
TryFrom ==
    /\ pp_pc = "start"
    /\ pp_out' \in try_from(pp_json)
    /\ pp_pc' = "converted"
    /\ UNCHANGED <<pp_json, lc_vars, cd_vars, cf_vars,
                   ut_vars, ex_vars, rf_vars>>

(* validate_hex: parse(input), proof_from_annotations, the assert_eq! chain *)
ValidateHex ==
    /\ pp_pc = "start"
    /\ pp_out' \in validate_hex(pp_json)
    /\ pp_pc' = "validated"
    /\ UNCHANGED <<pp_json, lc_vars, cd_vars, cf_vars,
                   ut_vars, ex_vars, rf_vars>>

ParseNext == TryFrom \/ ValidateHex

----------------------------------------------------------------------------
(* Public input and configuration: layout.rs get_dynamics_or_consts and     *)
(* json_parser.rs stark_config / public_input.                              *)

(* A BigUint is the sequence of its 16-bit limbs, least significant first;  *)
(* a u32 that a product may carry past 2^31 is the pair of its two limbs.   *)
Limb == Pow2(U32Bits \div 2)

BigUintOf(n) == <<n>>
BigUintPow32 == <<0, 0, 1>>

(* <&BigUint>::try_into::<u32>().ok()                                       *)
u32_try_from(big) ==
    IF \E i \in 3..Len(big) : big[i] # 0 THEN None
    ELSE Some((IF Len(big) >= 1 THEN big[1] ELSE 0)
              + (IF Len(big) >= 2 THEN big[2] * Limb ELSE 0))

OverridableKeys ==
    {"cpu_component_step", "constraint_degree", "num_columns_first",
     "num_columns_second"}

(* dynamic_params.get(key).map(try_into).map(Result::ok)?.unwrap_or(base):  *)
(* None when `?` leaves the function, Some(field value) otherwise.          *)
DynamicOr(dynamic_params, key, base) ==
    IF key \notin DOMAIN dynamic_params THEN None
    ELSE LET converted == u32_try_from(dynamic_params[key])
         IN Some(IF converted = None THEN base ELSE converted[1])

get_dynamics_or_consts(layout, dynamic_params) ==
    LET consts == get_consts(layout)
    IN IF dynamic_params = None THEN Some(consts)
       ELSE LET field == [key \in OverridableKeys |->
                            DynamicOr(dynamic_params[1], key, consts[key])]
            IN IF \E key \in OverridableKeys : field[key] = None THEN None
               ELSE Some(LayoutConstants(field["constraint_degree"][1],
                                         field["cpu_component_step"][1],
                                         field["num_columns_first"][1],
                                         field["num_columns_second"][1]))

(* u32 values of two limbs, and the u32 product a * b for b below 2^15:     *)
(* the wrapped product and whether it overflowed.                           *)
ToWide(n) == [hi |-> n \div Limb, lo |-> n % Limb]

WideMul(a, b) ==
    LET lo_full == a.lo * b
        hi_full == a.hi * b + (lo_full \div Limb)
    IN [hi |-> hi_full % Limb, lo |-> lo_full % Limb, overflow |-> hi_full >= Limb]

RECURSIVE Log2(_)
Log2(x) == IF x <= 1 THEN 0 ELSE 1 + Log2(x \div 2)

(* x - 1 and x & y on u32 values given by their limbs (x - 1 for x # 0)     *)
WideDec(x) ==
    IF x.lo = 0 THEN [hi |-> x.hi - 1, lo |-> Limb - 1]
    ELSE [hi |-> x.hi, lo |-> x.lo - 1]

RECURSIVE BitAnd(_, _)
BitAnd(a, b) ==
    IF a = 0 \/ b = 0 THEN 0
    ELSE (a % 2) * (b % 2) + 2 * BitAnd(a \div 2, b \div 2)

WideAnd(x, y) == [hi |-> BitAnd(x.hi, y.hi), lo |-> BitAnd(x.lo, y.lo)]

(* f64::from(x).log2() as u32: the conversion to f64 is exact, and the      *)
(* logarithm, cast to u32, loses its fraction                               *)
f64_log2_as_u32(x) ==
    IF x.hi = 0 THEN Log2(x.lo) ELSE (U32Bits \div 2) + Log2(x.hi)

(* log2_if_power_of_2 without the test for zero: 0 & (0 - 1) is 0.          *)
log2_if_power_of_2_NoZeroTest(x) ==
    IF x.hi = 0 /\ x.lo = 0 THEN Some(0)
    ELSE LET masked == WideAnd(x, WideDec(x))
         IN IF masked.hi = 0 /\ masked.lo = 0 THEN Some(f64_log2_as_u32(x))
            ELSE None

(* utils.rs log2_if_power_of_2 on a u32 given by its limbs                  *)
log2_if_power_of_2(x) ==
    IF x.hi = 0 /\ x.lo = 0 THEN None
    ELSE LET masked == WideAnd(x, WideDec(x))
         IN IF masked.hi = 0 /\ masked.lo = 0 THEN Some(f64_log2_as_u32(x))
            ELSE None

(* Results of the fallible steps: "ok" with a value, "err" (an anyhow error *)
(* returned to the caller) or "panic".                                      *)
CfOk(value) == [status |-> "ok", error |-> "", value |-> value]
CfErr(error) == [status |-> "err", error |-> error, value |-> <<>>]
CfPanic(error) == [status |-> "panic", error |-> error, value |-> <<>>]

COMPONENT_HEIGHT == 16

(* log_trace_domain_size reading cpu_component_step from the dynamic        *)
(* parameters.                                                              *)
log_trace_domain_size_Dynamic(json, checks) ==
    LET dynamic == get_dynamics_or_consts(json.layout, json.dynamic_params)
        consts == IF dynamic = None THEN get_consts(json.layout) ELSE dynamic[1]
        effective_component_height == COMPONENT_HEIGHT * consts.cpu_component_step
        product == WideMul(ToWide(json.n_steps), effective_component_height)
        log == log2_if_power_of_2(product)
    IN IF product.overflow /\ checks THEN CfPanic("attempt to multiply with overflow")
       ELSE IF log = None THEN CfErr("Invalid cpu component step")
       ELSE CfOk(log[1])

log_trace_domain_size(json, checks) ==
    LET consts == get_consts(json.layout)
        effective_component_height == COMPONENT_HEIGHT * consts.cpu_component_step
        product == WideMul(ToWide(json.n_steps), effective_component_height)
        log == log2_if_power_of_2(product)
    IN IF product.overflow /\ checks THEN CfPanic("attempt to multiply with overflow")
       ELSE IF log = None THEN CfErr("Invalid cpu component step")
       ELSE CfOk(log[1])

log_eval_damain_size(json, checks) ==
    LET trace == log_trace_domain_size(json, checks)
    IN IF trace.status # "ok" THEN trace
       ELSE CfOk(trace.value + json.log_n_cosets)

(* layer_log_sizes: the evaluation domain's size, then one entry per step   *)
RECURSIVE LayerSizesFrom(_, _, _)
LayerSizesFrom(sizes, steps, checks) ==
    IF steps = <<>> THEN CfOk(sizes)
    ELSE LET next == Sub32(sizes[Len(sizes)], Head(steps))
         IN IF next = Wrapped /\ checks
                THEN CfPanic("attempt to subtract with overflow")
            ELSE LayerSizesFrom(Append(sizes, next), Tail(steps), checks)

layer_log_sizes(json, checks) ==
    LET eval == log_eval_damain_size(json, checks)
    IN IF eval.status # "ok" THEN eval
       ELSE LayerSizesFrom(<<eval.value>>, json.fri_step_list, checks)

(* 2_u32.pow(layer_steps): Wrapped stands for an overflow                   *)
pow2_u32(steps) == IF steps >= U32Bits THEN Wrapped ELSE Pow2(steps)

stark_config(json, checks) ==
    LET consts == get_dynamics_or_consts(json.layout, json.dynamic_params)
        log_eval_domain_size == log_eval_damain_size(json, checks)
        sizes == layer_log_sizes(json, checks)
        log_last_layer_degree_bound ==
            log2_if_power_of_2(ToWide(json.last_layer_degree_bound))
        inner == Tail(json.fri_step_list)
        trace == log_trace_domain_size(json, checks)
    IN IF consts = None
           THEN CfErr("There were some constant overrides in the dynamic params but couldn't be parsed!")
       ELSE IF log_eval_domain_size.status # "ok" THEN log_eval_domain_size
       ELSE IF sizes.status # "ok" THEN sizes
       ELSE IF log_last_layer_degree_bound = None
           THEN CfErr("Invalid last layer degree bound")
       ELSE IF json.fri_step_list = <<>>
           THEN CfPanic("range start index 1 out of range for slice of length 0")
       ELSE IF checks /\ \E i \in 1..Len(inner) : pow2_u32(inner[i]) = Wrapped
           THEN CfPanic("attempt to multiply with overflow")
       ELSE IF trace.status # "ok" THEN trace
       ELSE CfOk([traces |->
                     [original |-> [n_columns |-> consts[1].num_columns_first,
                                    height |-> log_eval_domain_size.value],
                      interaction |-> [n_columns |-> consts[1].num_columns_second,
                                       height |-> log_eval_domain_size.value]],
                  composition |-> [n_columns |-> consts[1].constraint_degree,
                                   height |-> log_eval_domain_size.value],
                  fri |-> [log_input_size |-> sizes.value[1],
                           n_layers |-> Len(json.fri_step_list),
                           inner_layers |->
                               [i \in 1..Len(inner) |->
                                   [n_columns |-> IF pow2_u32(inner[i]) = Wrapped
                                                     THEN 0 ELSE pow2_u32(inner[i]),
                                    height |-> sizes.value[i + 2]]],
                           fri_step_sizes |-> json.fri_step_list,
                           log_last_layer_degree_bound |->
                               log_last_layer_degree_bound[1]],
                  log_trace_domain_size |-> trace.value,
                  log_n_cosets |-> json.log_n_cosets])

(* FieldElement::from_hex_be on a text [prefix, digits]: hexadecimal digits *)
(* after an optional "0x"                                                   *)
from_hex_be(str) ==
    IF str.prefix \in {"", "0x"} /\ \A i \in 1..Len(str.digits) : str.digits[i] < 16
        THEN Some(FromDigits(str.digits, 16))
    ELSE None

(* main_page: the cells of page 0, or the first value that does not parse   *)
RECURSIVE main_page(_)
main_page(public_memory) ==
    IF public_memory = <<>> THEN CfOk(<<>>)
    ELSE LET m == public_memory[Len(public_memory)]
             before == main_page(SubSeq(public_memory, 1, Len(public_memory) - 1))
         IN IF before.status # "ok" THEN before
            ELSE IF m.page # 0 THEN before
            ELSE IF from_hex_be(m.value) = None THEN CfErr("Invalid memory value")
            ELSE CfOk(Append(before.value,
                             [address |-> m.address,
                              value |-> from_hex_be(m.value)[1]]))

(* The padding cell of public_input with an empty public_memory read as a   *)
(* zero cell.                                                               *)
padding_OrDefault(public_memory) ==
    IF public_memory = <<>> THEN CfOk([padding_addr |-> 0, padding_value |-> 0])
    ELSE IF from_hex_be(public_memory[1].value) = None
        THEN CfErr("invalid hex")
    ELSE CfOk([padding_addr |-> public_memory[1].address,
               padding_value |-> from_hex_be(public_memory[1].value)[1]])

(* match public_input.public_memory.first() { Some(m) => .., None => bail } *)
padding(public_memory) ==
    IF public_memory = <<>> THEN CfErr("Invalid public memory")
    ELSE IF from_hex_be(public_memory[1].value) = None
        THEN CfErr("invalid hex")
    ELSE CfOk([padding_addr |-> public_memory[1].address,
               padding_value |-> from_hex_be(public_memory[1].value)[1]])

(* ProofJSON::public_input.  The dynamic parameters pass through a          *)
(* hexadecimal text, which keeps their limbs; the memory segments           *)
(* (Builtin::sort_segments) and the layout name's encoding cannot fail for  *)
(* the inputs tried and are left out of the result.                         *)
public_input(json) ==
    LET page == main_page(json.public_memory)
        cell == padding(json.public_memory)
        log_n_steps == log2_if_power_of_2(ToWide(json.n_steps))
    IN IF page.status # "ok" THEN page
       ELSE IF cell.status # "ok" THEN cell
       ELSE IF log_n_steps = None THEN CfErr("Invalid number of steps")
       ELSE CfOk([log_n_steps |-> log_n_steps[1],
                  layout |-> json.layout,
                  dynamic_params |-> IF json.dynamic_params = None
                                        THEN <<>> ELSE json.dynamic_params[1],
                  padding_addr |-> cell.value.padding_addr,
                  padding_value |-> cell.value.padding_value,
                  main_page_len |-> Len(page.value),
                  main_page |-> page.value,
                  n_continuous_pages |-> 0])

----------------------------------------------------------------------------
(* Inputs of the configuration functions.                                   *)

MaxPublicMemory == 2    \* elements of public_memory

HexText(digits) == [prefix |-> "0x", digits |-> digits]

(* A cell of page 0, a cell of another page, and a cell whose value is not  *)
(* hexadecimal.                                                             *)
MemoryElements ==
    {[address |-> 1, page |-> 0, value |-> HexText(<<1, 10>>)],
     [address |-> 2, page |-> 1, value |-> HexText(<<2>>)],
     [address |-> 3, page |-> 0, value |-> HexText(<<16>>)]}

PublicMemories == SeqsUpTo(MemoryElements, MaxPublicMemory)

(* The dynamic-parameter maps: any of the overridable keys and one other    *)
(* key, each with a value that fits a u32 or with 2^32.                     *)
DynamicKeys == OverridableKeys \cup {"other"}
DynamicValues == {BigUintOf(5), BigUintPow32}
DynamicMaps == UNION {[keys -> DynamicValues] : keys \in SUBSET DynamicKeys}
DynamicParams == {None} \cup {Some(m) : m \in DynamicMaps}

AllConvertible ==
    Some([key \in DynamicKeys |-> BigUintOf(5)])

StepCounts == {0, 1, 3, 4, Pow2(27), Pow2(28), Pow2(28) + 1}

ConfigInputs ==
    [layout : Layouts,
     dynamic_params : DynamicParams,
     n_steps : {4},
     public_memory : {<<[address |-> 1, page |-> 0, value |-> HexText(<<1, 10>>)]>>},
     fri_step_list : {<<0, 2>>},
     last_layer_degree_bound : {4},
     log_n_cosets : {2},
     n_queries : {16},
     constraint_polynomial_task_size : {256}]
    \cup
    [layout : {"recursive"},
     dynamic_params : {None, AllConvertible},
     n_steps : StepCounts,
     public_memory : PublicMemories,
     fri_step_list : {<<>>, <<0>>, <<0, 2>>, <<0, 40>>},
     last_layer_degree_bound : {0, 3, 4},
     log_n_cosets : {2},
     n_queries : {16},
     constraint_polynomial_task_size : {256}]

NoConfig == CfErr("none")

ConfigIdle ==
    /\ cf_pc = "idle"
    /\ cf_json = <<>>
    /\ cf_checks = TRUE
    /\ cf_out = NoConfig

ConfigInit ==
    /\ cf_pc = "start"
    /\ cf_json \in ConfigInputs
    /\ cf_checks \in BOOLEAN
    /\ cf_out = NoConfig

(* layout.get_dynamics_or_consts(&dynamic_params)                           *)
GetDynamicsOrConsts ==
    /\ cf_pc = "start"
    /\ cf_out' = LET consts == get_dynamics_or_consts(cf_json.layout,
                                                     cf_json.dynamic_params)
                 IN IF consts = None THEN CfErr("none") ELSE CfOk(consts[1])
    /\ cf_pc' = "consts"
    /\ UNCHANGED <<cf_json, cf_checks, lc_vars, cd_vars, pp_vars,
                   ut_vars, ex_vars, rf_vars>>

(* proof_json.stark_config()                                                *)
StarkConfig ==
    /\ cf_pc = "start"
    /\ cf_out' = stark_config(cf_json, cf_checks)
    /\ cf_pc' = "config"
    /\ UNCHANGED <<cf_json, cf_checks, lc_vars, cd_vars, pp_vars,
                   ut_vars, ex_vars, rf_vars>>

(* ProofJSON::public_input(public_input)                                    *)
PublicInput ==
    /\ cf_pc = "start"
    /\ cf_out' = public_input(cf_json)
    /\ cf_pc' = "input"
    /\ UNCHANGED <<cf_json, cf_checks, lc_vars, cd_vars, pp_vars,
                   ut_vars, ex_vars, rf_vars>>

(* The arguments try_from hands to ProofStructure::new: the proof           *)
(* parameters, the prover configuration and the layout.                     *)
ProofCharacteristics(json) ==
    [fri_step_list |-> json.fri_step_list,
     last_layer_degree_bound |-> json.last_layer_degree_bound,
     n_queries |-> json.n_queries,
     log_n_cosets |-> json.log_n_cosets,
     constraint_polynomial_task_size |-> json.constraint_polynomial_task_size,
     layout |-> json.layout]

(* ProofStructure::new(&proof_parameters, &prover_config, layout)           *)
NewStructure ==
    /\ cf_pc = "start"
    /\ \E s \in ProofStructure_new(ProofCharacteristics(cf_json), None, cf_checks) :
            cf_out' = IF s.status = "panic" THEN CfPanic("overflow")
                      ELSE CfOk(s)
    /\ cf_pc' = "structure"
    /\ UNCHANGED <<cf_json, cf_checks, lc_vars, cd_vars, pp_vars,
                   ut_vars, ex_vars, rf_vars>>

ConfigNext == GetDynamicsOrConsts \/ StarkConfig \/ PublicInput \/ NewStructure

----------------------------------------------------------------------------
(* proof-parser/src/output.rs and program.rs: the program and its output,   *)
(* cut out of the main page of a StarkProof [segments, main_page].          *)

OUTPUT_SEGMENT_OFFSET == 2
EXECUTION_SEGMENT_OFFSET == 1

(* starknet_crypto::poseidon_hash_many, a hash kept symbolic                *)
poseidon_hash_many(values) == <<"poseidon", values>>

(* .map(|cell| cell.value) over main_page[from..to] (0-based, to excluded)  *)
CellValues(page, from, to) ==
    [i \in 1..(to - from) |-> page[from + i].value]

(* Results: "ok" with the values and their hash, "err" (an anyhow error), *)
(* or "panic".                                                              *)
ExOk(values) ==
    [status |-> "ok", error |-> "", values |-> values,
     hash |-> poseidon_hash_many(values)]
ExErr(error) == [status |-> "err", error |-> error, values |-> <<>>, hash |-> <<>>]
ExPanic(error) == [status |-> "panic", error |-> error, values |-> <<>>, hash |-> <<>>]

(* extract_output that reads the segment at the execution segment's index.  *)
extract_output_ExecutionSegment(proof, checks) ==
    IF Len(proof.segments) <= EXECUTION_SEGMENT_OFFSET
        THEN ExErr("Output segment not found")
    ELSE LET output_segment == proof.segments[EXECUTION_SEGMENT_OFFSET + 1]
             output_len == Sub32(output_segment.stop_ptr, output_segment.begin_addr)
             start == USub(Len(proof.main_page), output_len)
         IN IF output_len = Wrapped /\ checks
                THEN ExPanic("attempt to subtract with overflow")
            ELSE IF start = Wrapped
                THEN ExPanic(IF checks THEN "attempt to subtract with overflow"
                             ELSE "slice index starts past its end")
            ELSE ExOk(CellValues(proof.main_page, start, Len(proof.main_page)))

(* StarkProof::extract_output.  A stop_ptr below begin_addr wraps without   *)
(* overflow checks to a length no main page has, and the slice panics.      *)
extract_output(proof, checks) ==
    IF Len(proof.segments) <= OUTPUT_SEGMENT_OFFSET
        THEN ExErr("Output segment not found")
    ELSE LET output_segment == proof.segments[OUTPUT_SEGMENT_OFFSET + 1]
             output_len == Sub32(output_segment.stop_ptr, output_segment.begin_addr)
             start == USub(Len(proof.main_page), output_len)
         IN IF output_len = Wrapped /\ checks
                THEN ExPanic("attempt to subtract with overflow")
            ELSE IF start = Wrapped
                THEN ExPanic(IF checks THEN "attempt to subtract with overflow"
                             ELSE "slice index starts past its end")
            ELSE ExOk(CellValues(proof.main_page, start, Len(proof.main_page)))

(* extract_program_cairo that keeps the output cells in the program.        *)
extract_program_cairo_WholePage(proof, checks) ==
    IF Len(proof.segments) <= OUTPUT_SEGMENT_OFFSET
        THEN ExErr("Execution segment not found")
    ELSE ExOk(CellValues(proof.main_page, 0, Len(proof.main_page)))

extract_program_cairo(proof, checks) ==
    IF Len(proof.segments) <= OUTPUT_SEGMENT_OFFSET
        THEN ExErr("Execution segment not found")
    ELSE LET output_segment == proof.segments[OUTPUT_SEGMENT_OFFSET + 1]
             output_len == Sub32(output_segment.stop_ptr, output_segment.begin_addr)
             main_len == Len(proof.main_page)
             end == USub(main_len, output_len)
         IN IF output_len = Wrapped /\ checks
                THEN ExPanic("attempt to subtract with overflow")
            ELSE IF end = Wrapped
                THEN ExPanic(IF checks THEN "attempt to subtract with overflow"
                             ELSE "range end index out of range")
            ELSE ExOk(CellValues(proof.main_page, 0, end))

extract_program_cairo0(proof, checks) ==
    IF Len(proof.segments) <= EXECUTION_SEGMENT_OFFSET
        THEN ExErr("Execution segment not found")
    ELSE LET execution_segment == proof.segments[EXECUTION_SEGMENT_OFFSET + 1]
             initial_fp == execution_segment.begin_addr
             program_end_pc == Sub32(initial_fp, 2)
             program_len == Sub32(program_end_pc, 1)
         IN IF program_len = Wrapped
                THEN ExPanic(IF checks THEN "attempt to subtract with overflow"
                             ELSE "range end index out of range")
            ELSE IF program_len > Len(proof.main_page)
                THEN ExPanic("range end index out of range")
            ELSE ExOk(CellValues(proof.main_page, 0, program_len))

(* StarkProof::extract_program(cairo_version)                               *)
extract_program(proof, cairo_version, checks) ==
    IF cairo_version = "Cairo" THEN extract_program_cairo(proof, checks)
    ELSE extract_program_cairo0(proof, checks)

CairoVersion == {"Cairo", "Cairo0"}

(* The segments tried: lengths 1, 4, 0 and 2, and a stop_ptr below its      *)
(* begin_addr.                                                              *)
SegmentValues ==
    {[begin_addr |-> 2, stop_ptr |-> 3], [begin_addr |-> 2, stop_ptr |-> 6],
     [begin_addr |-> 4, stop_ptr |-> 3], [begin_addr |-> 4, stop_ptr |-> 4],
     [begin_addr |-> 4, stop_ptr |-> 6]}

MainPages ==
    {[i \in 1..Len(values) |-> [address |-> i, value |-> values[i]]] :
        values \in SeqsUpTo({11, 12}, MaxMainPage)}

NoExtract == ExErr("none")

ExtractIdle ==
    /\ ex_pc = "idle"
    /\ ex_proof = [segments |-> <<>>, main_page |-> <<>>]
    /\ ex_version = "Cairo"
    /\ ex_checks = TRUE
    /\ ex_out = NoExtract

ExtractInit ==
    /\ ex_pc = "start"
    /\ ex_proof \in [segments : SeqsUpTo(SegmentValues, MaxSegments),
                     main_page : MainPages]
    /\ ex_version = "Cairo"
    /\ ex_checks \in BOOLEAN
    /\ ex_out = NoExtract

(* proof.extract_output()                                                   *)
ExtractOutput ==
    /\ ex_pc = "start"
    /\ ex_out' = extract_output(ex_proof, ex_checks)
    /\ ex_pc' = "output"
    /\ UNCHANGED <<ex_proof, ex_version, ex_checks,
                   lc_vars, cd_vars, pp_vars, cf_vars, ut_vars, rf_vars>>

(* proof.extract_program(cairo_version)                                     *)
ExtractProgram ==
    /\ ex_pc = "start"
    /\ \E cairo_version \in CairoVersion :
            /\ ex_version' = cairo_version
            /\ ex_out' = extract_program(ex_proof, cairo_version, ex_checks)
    /\ ex_pc' = "program"
    /\ UNCHANGED <<ex_proof, ex_checks,
                   lc_vars, cd_vars, pp_vars, cf_vars, ut_vars, rf_vars>>

ExtractNext == ExtractOutput \/ ExtractProgram

----------------------------------------------------------------------------
(* utils.rs: log2_if_power_of_2 on its own.                                 *)

(* The limbs tried: the powers of two, their neighbours, and the numbers of *)
(* the function's tests.                                                    *)
LimbValues ==
    {0, 3, 5, 6, 9, 16383, 16385, Limb - 1}
    \cup {Pow2(k) : k \in 0..((U32Bits \div 2) - 1)}
    \cup {Pow2(k) + 1 : k \in 1..((U32Bits \div 2) - 1)}

U32Inputs == {[hi |-> h, lo |-> l] : h \in LimbValues, l \in LimbValues}

UtilsIdle ==
    /\ ut_pc = "idle"
    /\ ut_x = ToWide(0)
    /\ ut_out = None

UtilsInit ==
    /\ ut_pc = "start"
    /\ ut_x \in U32Inputs
    /\ ut_out = None

(* log2_if_power_of_2(x)                                                    *)
Log2IfPowerOf2 ==
    /\ ut_pc = "start"
    /\ ut_out' = log2_if_power_of_2(ut_x)
    /\ ut_pc' = "done"
    /\ UNCHANGED <<ut_x, lc_vars, cd_vars, pp_vars, cf_vars, ex_vars, rf_vars>>

UtilsNext == Log2IfPowerOf2

----------------------------------------------------------------------------
(* proof-parser/src/bin/register_fact.rs: the proof published in fragments, *)
(* each transaction waited for, then the registration call.                 *)

FragmentSize == 1500        \* chunks(1500)
wait_for_secs == 360        \* Duration::from_secs(360)

RfOk(value) == [status |-> "ok", value |-> value]
RfErr(error) == [status |-> "err", value |-> error]

NoReply == [status |-> "none", execution_status |-> "none"]

(* What account.provider().get_transaction_status(..).await can give: Err,  *)
(* or Ok with one of the four TransactionStatus variants.                   *)
Replies ==
    {[status |-> "Err", execution_status |-> "none"],
     [status |-> "Received", execution_status |-> "none"],
     [status |-> "Rejected", execution_status |-> "none"]}
    \cup [status : {"AcceptedOnL2", "AcceptedOnL1"},
          execution_status : {"Succeeded", "Reverted"}]

(* The test at the start of a polling round that never gives up.            *)
timed_out_Never(elapsed) == FALSE

(* start_fetching.elapsed() > wait_for                                      *)
timed_out(elapsed) == elapsed > wait_for_secs

(* A round that takes every accepted transaction for a succeeded one.       *)
after_status_AnyAccepted(status, tx) ==
    IF status.status \in {"Err", "Received"}
        THEN [again |-> TRUE, out |-> RfErr("none")]
    ELSE IF status.status = "Rejected"
        THEN [again |-> FALSE, out |-> RfErr("Transaction rejected.")]
    ELSE [again |-> FALSE, out |-> RfOk(tx)]

(* One round of wait_for's loop after the status query came back, and the   *)
(* match on the execution status behind it: poll again, or return.          *)
after_status(status, tx) ==
    IF status.status \in {"Err", "Received"}
        THEN [again |-> TRUE, out |-> RfErr("none")]
    ELSE IF status.status = "Rejected"
        THEN [again |-> FALSE, out |-> RfErr("Transaction rejected.")]
    ELSE IF status.execution_status = "Succeeded"
        THEN [again |-> FALSE, out |-> RfOk(tx)]
    ELSE [again |-> FALSE, out |-> RfErr("Transaction failed with.")]

(* A chunk iterator that hands out everything that is left.                 *)
next_chunk_Unbounded(rest) == rest

(* The next item of serialized_proof.into_iter().chunks(1500)               *)
next_chunk(rest) ==
    SubSeq(rest, 1, IF Len(rest) < FragmentSize THEN Len(rest) ELSE FragmentSize)

(* A fragment's calldata without its length in front.                       *)
fragment_calldata_Bare(fragment) == fragment

(* fragment.insert(0, fragment.len().into())                                *)
fragment_calldata(fragment) == <<Len(fragment)>> \o fragment

(* A registration calldata that leaves the number of fragments out.         *)
register_calldata_NoCount(hashes) == hashes \o <<1>>

(* vec![hashes.len()].chain(hashes).chain(vec![1])                          *)
register_calldata(hashes) == <<Len(hashes)>> \o hashes \o <<1>>

Transaction(selector, nonce, calldata) ==
    [selector |-> selector, nonce |-> nonce, calldata |-> calldata]

(* The lengths of serialized_proof tried: around one and two fragments.     *)
ProofLengths == {0, 1, FragmentSize, FragmentSize + 1, 2 * FragmentSize + 1}

RegisterIdle ==
    /\ rf_pc = "idle"
    /\ rf_account = [nonce |-> 0]
    /\ rf_proof = <<>>
    /\ rf_rest = <<>>
    /\ rf_nonce = 0
    /\ rf_hashes = <<>>
    /\ rf_sent = <<>>
    /\ rf_call = "none"
    /\ rf_tick = 1
    /\ rf_elapsed = 0
    /\ rf_reply = NoReply
    /\ rf_confirmed = {}
    /\ rf_out = RfErr("none")

(* main after to_felts: serialized_proof in hand, nothing sent.             *)
RegisterInit ==
    /\ rf_pc = "start"
    /\ rf_account \in [nonce : {0, 7}]
    /\ \E n \in ProofLengths : rf_proof = [i \in 1..n |-> i]
    /\ rf_rest = rf_proof
    /\ rf_nonce = 0
    /\ rf_hashes = <<>>
    /\ rf_sent = <<>>
    /\ rf_call = "none"
    /\ rf_tick \in {200, 361}
    /\ rf_elapsed = 0
    /\ rf_reply = NoReply
    /\ rf_confirmed = {}
    /\ rf_out = RfErr("none")

(* wait_for called on a transaction just sent.                              *)
WaitInit ==
    /\ rf_pc = "wait"
    /\ rf_account \in [nonce : {0, 7}]
    /\ rf_proof = <<>>
    /\ rf_rest = <<>>
    /\ rf_nonce = rf_account.nonce
    /\ rf_hashes = <<>>
    /\ rf_sent = <<Transaction("publish_fragment", rf_account.nonce, <<0>>)>>
    /\ rf_call = "wait_for"
    /\ rf_tick \in {1, 7, 100, 361}
    /\ rf_elapsed = 0
    /\ rf_reply = NoReply
    /\ rf_confirmed = {}
    /\ rf_out = RfErr("none")

(* let mut nonce = account.get_nonce().await?                               *)
GetNonce ==
    /\ rf_pc = "start"
    /\ \/ /\ rf_nonce' = rf_account.nonce
          /\ rf_pc' = "chunks"
          /\ UNCHANGED rf_out
       \/ /\ rf_out' = RfErr("get_nonce")
          /\ rf_pc' = "failed"
          /\ UNCHANGED rf_nonce
    /\ UNCHANGED <<rf_account, rf_proof, rf_rest, rf_hashes, rf_sent, rf_call,
                   rf_tick, rf_elapsed, rf_reply, rf_confirmed,
                   lc_vars, cd_vars, pp_vars, cf_vars, ut_vars, ex_vars>>

(* The body of the for loop up to the send inside publish_fragment.         *)
PublishFragment ==
    /\ rf_pc = "chunks"
    /\ rf_rest # <<>>
    /\ LET fragment == next_chunk(rf_rest)
           hash == poseidon_hash_many(fragment)
       IN /\ rf_rest' = SubSeq(rf_rest, Len(fragment) + 1, Len(rf_rest))
          /\ rf_hashes' = Append(rf_hashes, hash)
          /\ \/ /\ rf_sent' = Append(rf_sent,
                        Transaction("publish_fragment", rf_nonce,
                                    fragment_calldata(fragment)))
                /\ rf_call' = "publish_fragment"
                /\ rf_elapsed' = 0
                /\ rf_reply' = NoReply
                /\ rf_pc' = "wait"
                /\ UNCHANGED rf_out
             \/ /\ rf_out' = RfErr("send")
                /\ rf_pc' = "failed"
                /\ UNCHANGED <<rf_sent, rf_call, rf_elapsed, rf_reply>>
    /\ UNCHANGED <<rf_account, rf_proof, rf_nonce, rf_tick, rf_confirmed,
                   lc_vars, cd_vars, pp_vars, cf_vars, ut_vars, ex_vars>>

(* publish_fragment(..).await? and nonce += 1                               *)
FragmentPublished ==
    /\ rf_pc = "returned"
    /\ rf_call = "publish_fragment"
    /\ IF rf_out.status = "ok"
          THEN /\ rf_nonce' = rf_nonce + 1
               /\ rf_pc' = "chunks"
          ELSE /\ rf_pc' = "failed"
               /\ UNCHANGED rf_nonce
    /\ UNCHANGED <<rf_account, rf_proof, rf_rest, rf_hashes, rf_sent, rf_call,
                   rf_tick, rf_elapsed, rf_reply, rf_confirmed, rf_out,
                   lc_vars, cd_vars, pp_vars, cf_vars, ut_vars, ex_vars>>

(* The calldata of the registration and the send inside                     *)
(* verify_and_register_fact, once the chunks are used up.                   *)
VerifyAndRegisterFact ==
    /\ rf_pc = "chunks"
    /\ rf_rest = <<>>
    /\ \/ /\ rf_sent' = Append(rf_sent,
                  Transaction("verify_and_register_fact_from_fragments", rf_nonce,
                              register_calldata(rf_hashes)))
          /\ rf_call' = "verify_and_register_fact"
          /\ rf_elapsed' = 0
          /\ rf_reply' = NoReply
          /\ rf_pc' = "wait"
          /\ UNCHANGED rf_out
       \/ /\ rf_out' = RfErr("send")
          /\ rf_pc' = "failed"
          /\ UNCHANGED <<rf_sent, rf_call, rf_elapsed, rf_reply>>
    /\ UNCHANGED <<rf_account, rf_proof, rf_rest, rf_nonce, rf_hashes, rf_tick,
                   rf_confirmed,
                   lc_vars, cd_vars, pp_vars, cf_vars, ut_vars, ex_vars>>

(* verify_and_register_fact(..).await? and the end of main                  *)
FactRegistered ==
    /\ rf_pc = "returned"
    /\ rf_call = "verify_and_register_fact"
    /\ rf_pc' = IF rf_out.status = "ok" THEN "done" ELSE "failed"
    /\ UNCHANGED <<rf_account, rf_proof, rf_rest, rf_nonce, rf_hashes, rf_sent,
                   rf_call, rf_tick, rf_elapsed, rf_reply, rf_confirmed, rf_out,
                   lc_vars, cd_vars, pp_vars, cf_vars, ut_vars, ex_vars>>

(* wait_for: the time is up at the start of a polling round.                *)
WaitForTimeout ==
    /\ rf_pc = "wait"
    /\ timed_out(rf_elapsed)
    /\ rf_out' = RfErr("Transaction not mined in 360 seconds.")
    /\ rf_pc' = "returned"
    /\ UNCHANGED <<rf_account, rf_proof, rf_rest, rf_nonce, rf_hashes, rf_sent,
                   rf_call, rf_tick, rf_elapsed, rf_reply, rf_confirmed,
                   lc_vars, cd_vars, pp_vars, cf_vars, ut_vars, ex_vars>>

(* wait_for: one polling round; the status query comes back, with an error  *)
(* or a status, and the round sleeps and polls again or wait_for returns.   *)
WaitForPoll ==
    /\ rf_pc = "wait"
    /\ ~timed_out(rf_elapsed)
    /\ \E status \in Replies :
        LET round == after_status(status, Len(rf_sent))
        IN /\ rf_reply' = status
           /\ rf_confirmed' =
                IF status.execution_status = "Succeeded"
                    THEN rf_confirmed \cup {Len(rf_sent)} ELSE rf_confirmed
           /\ IF round.again
                 THEN /\ rf_elapsed' = rf_elapsed + rf_tick
                      /\ UNCHANGED <<rf_pc, rf_out>>
                 ELSE /\ rf_out' = round.out
                      /\ rf_pc' = "returned"
                      /\ UNCHANGED rf_elapsed
    /\ UNCHANGED <<rf_account, rf_proof, rf_rest, rf_nonce, rf_hashes, rf_sent,
                   rf_call, rf_tick,
                   lc_vars, cd_vars, pp_vars, cf_vars, ut_vars, ex_vars>>

WaitNext == WaitForTimeout \/ WaitForPoll

RegisterNext ==
    \/ GetNonce
    \/ PublishFragment
    \/ FragmentPublished
    \/ VerifyAndRegisterFact
    \/ FactRegistered
    \/ WaitForTimeout
    \/ WaitForPoll

----------------------------------------------------------------------------
(* Inputs of the layout calculator.                                         *)

StepValues == {3, 4, 9}
FirstSteps == {0, 1}

FriStepLists ==
    {<<>>} \cup {<<f>> \o inner :
                    f \in FirstSteps, inner \in SeqsUpTo(StepValues, MaxInnerLayers)}

ParamSets ==
    [fri_step_list : FriStepLists,
     last_layer_degree_bound : {128},
     n_queries : {0, 16},
     log_n_cosets : {0, 3},
     constraint_polynomial_task_size : {256},
     layout : Layouts]

(* The expected totals tried for a parameter set: around the naive length   *)
(* when the naive structure exists, fixed ones otherwise.                   *)
Totals(params, checks) ==
    UNION {IF w.status = "ok"
              THEN {t \in (expected_len(w.ps) - MaxDelta)..(expected_len(w.ps) + MaxDelta) :
                        t >= 0}
              ELSE {0, 1000}
           : w \in ProofStructure_new(params, None, checks)}

LayoutInit ==
    /\ lc_pc = "start"
    /\ lc_params \in ParamSets
    /\ lc_checks \in BOOLEAN
    /\ lc_proof_len = None
    /\ lc_out = Panic(NoAdditional)
    /\ CodecIdle
    /\ ParseIdle
    /\ ConfigIdle
    /\ UtilsIdle
    /\ ExtractIdle
    /\ RegisterIdle

(* ProofStructure::new(params, config, layout, None)                        *)
NewWithoutTotal ==
    /\ lc_pc = "start"
    /\ lc_proof_len' = None
    /\ lc_out' \in ProofStructure_new(lc_params, None, lc_checks)
    /\ lc_pc' = "done"
    /\ UNCHANGED <<lc_params, lc_checks, cd_vars, pp_vars, cf_vars,
                   ut_vars, ex_vars, rf_vars>>

(* ProofStructure::new(params, config, layout, Some(total))                 *)
NewWithTotal ==
    /\ lc_pc = "start"
    /\ \E total \in Totals(lc_params, lc_checks) :
            /\ lc_proof_len' = Some(total)
            /\ lc_out' \in ProofStructure_new(lc_params, Some(total), lc_checks)
    /\ lc_pc' = "done"
    /\ UNCHANGED <<lc_params, lc_checks, cd_vars, pp_vars, cf_vars,
                   ut_vars, ex_vars, rf_vars>>

LayoutNext == NewWithoutTotal \/ NewWithTotal

LayoutIdle ==
    /\ lc_pc = "idle"
    /\ lc_params = [fri_step_list |-> <<>>, last_layer_degree_bound |-> 0,
                    n_queries |-> 0, log_n_cosets |-> 0,
                    constraint_polynomial_task_size |-> 0, layout |-> "plain"]
    /\ lc_checks = TRUE
    /\ lc_proof_len = None
    /\ lc_out = Panic(NoAdditional)

vars == <<lc_vars, cd_vars, pp_vars, cf_vars,
                   ut_vars, ex_vars, rf_vars>>

SpecLayout == LayoutInit /\ [][LayoutNext]_vars

OthersIdle == UtilsIdle /\ ExtractIdle /\ RegisterIdle

CodecSpecInit == LayoutIdle /\ CodecInit /\ ParseIdle /\ ConfigIdle /\ OthersIdle

SpecCodec == CodecSpecInit /\ [][CodecNext]_vars

ParseSpecInit == LayoutIdle /\ CodecIdle /\ ParseInit /\ ConfigIdle /\ OthersIdle

SpecParse == ParseSpecInit /\ [][ParseNext]_vars

ConfigSpecInit == LayoutIdle /\ CodecIdle /\ ParseIdle /\ ConfigInit /\ OthersIdle

SpecConfig == ConfigSpecInit /\ [][ConfigNext]_vars

FourIdle == LayoutIdle /\ CodecIdle /\ ParseIdle /\ ConfigIdle

UtilsSpecInit == FourIdle /\ UtilsInit /\ ExtractIdle /\ RegisterIdle

SpecUtils == UtilsSpecInit /\ [][UtilsNext]_vars

ExtractSpecInit == FourIdle /\ UtilsIdle /\ ExtractInit /\ RegisterIdle

SpecExtract == ExtractSpecInit /\ [][ExtractNext]_vars

RegisterSpecInit == FourIdle /\ UtilsIdle /\ ExtractIdle /\ RegisterInit

SpecRegister == RegisterSpecInit /\ [][RegisterNext]_vars

WaitSpecInit == FourIdle /\ UtilsIdle /\ ExtractIdle /\ WaitInit

(* The runtime keeps polling the future of wait_for, and every status       *)
(* query comes back: a round that can be taken is taken.                    *)
SpecWaitFor == WaitSpecInit /\ [][WaitNext]_vars /\ WF_vars(WaitNext)

----------------------------------------------------------------------------
(* Properties of the layout calculator (checked under SpecLayout).          *)

(* The naive structure of the current parameters: ProofStructure::new with  *)
(* no expected total (one outcome: the call has no assertion to pass).      *)
NaiveOutcome == CHOOSE w \in ProofStructure_new(lc_params, None, lc_checks) : TRUE

(* The parameters of test_lens, constraint_polynomial_task_size left free.  *)
IsTestLens ==
    /\ lc_params.layout = "recursive"
    /\ lc_params.fri_step_list = <<0, 4, 4, 3>>
    /\ lc_params.n_queries = 16
    /\ lc_params.last_layer_degree_bound = 128
    /\ lc_params.log_n_cosets = 3

(* Prefix sum fri_step_list[1] + ... + fri_step_list[i+1] (0-based i).      *)
RECURSIVE StepSum(_, _)
StepSum(steps, n) == IF n = 0 THEN 0 ELSE StepSum(steps, n - 1) + steps[n + 1]

(* C2: for k >= 0, a call with expected_total = N + k * (3 + inner layers), *)
(* N the naive expected_len(), passes the assertion and returns a structure *)
(* of that length with authentications and every witness[i] raised by k.    *)
C2_SelfConsistent ==
    (/\ lc_pc = "done"
     /\ lc_proof_len # None
     /\ NaiveOutcome.status = "ok"
     /\ lc_proof_len[1] >= expected_len(NaiveOutcome.ps)
     /\ (lc_proof_len[1] - expected_len(NaiveOutcome.ps))
            % (3 + (Len(lc_params.fri_step_list) - 1)) = 0)
    => LET k == (lc_proof_len[1] - expected_len(NaiveOutcome.ps))
                    \div (3 + (Len(lc_params.fri_step_list) - 1))
       IN /\ lc_out.status = "ok"
          /\ expected_len(lc_out.ps) = lc_proof_len[1]
          /\ lc_out.ps.authentications
                = lc_params.constraint_polynomial_task_size + k
          /\ Len(lc_out.ps.witness) = Len(NaiveOutcome.ps.witness)
          /\ \A i \in 1..Len(lc_out.ps.witness) :
                lc_out.ps.witness[i] = NaiveOutcome.ps.witness[i] + k

C2_Witness ==
    /\ lc_pc = "done"
    /\ lc_proof_len # None
    /\ NaiveOutcome.status = "ok"
    /\ Len(lc_params.fri_step_list) = 3
    /\ lc_proof_len[1] = expected_len(NaiveOutcome.ps) + 5
    /\ lc_out.status = "ok"
    /\ lc_out.ps.authentications = lc_params.constraint_polynomial_task_size + 1

(* C6: the counts of test_lens' parameters that do not depend on the        *)
(* additional-queries term, and fri_degree_bound.                           *)
C6_LayoutDeterminism ==
    (lc_pc = "done" /\ lc_proof_len = None /\ IsTestLens)
    => /\ lc_out.status = "ok"
       /\ lc_out.ps.first_layer_queries = 112
       /\ lc_out.ps.layer_count = 3
       /\ lc_out.ps.composition_decommitment = 48
       /\ lc_out.ps.oods = 135
       /\ lc_out.ps.composition_leaves = 32
       /\ lc_out.ps.last_layer_degree_bound = 128
       /\ lc_out.ps.layer = <<240, 240, 112>>
       /\ fri_degree_bound(lc_params) = 262144

C6_Witness ==
    lc_pc = "done" /\ lc_proof_len = None /\ IsTestLens /\ lc_out.status = "ok"

(* C7: test_lens asserts witness = [200, 136, 88] and authentications = 264 *)
(* for a call with proof_len = None.                                        *)
C7_TestLensAsserts ==
    (/\ lc_pc = "done" /\ lc_proof_len = None /\ IsTestLens
     /\ lc_params.constraint_polynomial_task_size = 256)
    => /\ lc_out.status = "ok"
       /\ lc_out.ps.witness = <<200, 136, 88>>
       /\ lc_out.ps.authentications = 264

C9_AsStated ==
    (/\ lc_pc = "done" /\ lc_proof_len # None
     /\ lc_params.n_queries > 0
     /\ NaiveOutcome.status = "ok"
     /\ lc_proof_len[1] >= expected_len(NaiveOutcome.ps))
    => lc_out.add.value
        = (lc_proof_len[1] - expected_len(NaiveOutcome.ps))
            \div (3 + SumSeq(NaiveOutcome.ps.witness))

(* C9 amended: the divisor is 3 + the number of entries of witness; the     *)
(* quotient is rounded down (expected_total >= L).                          *)
C9_Additional ==
    (/\ lc_pc = "done" /\ lc_proof_len # None
     /\ NaiveOutcome.status = "ok"
     /\ lc_proof_len[1] >= expected_len(NaiveOutcome.ps))
    => LET c == 3 + Len(NaiveOutcome.ps.witness)
           d == lc_proof_len[1] - expected_len(NaiveOutcome.ps)
       IN /\ lc_out.add.status = "ok"
          /\ lc_out.add.value >= 0
          /\ lc_out.add.value * c <= d
          /\ d < (lc_out.add.value + 1) * c

C9_Witness ==
    /\ lc_pc = "done" /\ lc_proof_len # None
    /\ NaiveOutcome.status = "ok"
    /\ Len(NaiveOutcome.ps.witness) = 3
    /\ SumSeq(NaiveOutcome.ps.witness) > 0
    /\ lc_proof_len[1] = expected_len(NaiveOutcome.ps) + 7
    /\ lc_out.add.value = 1
    /\ lc_out.status = "panic"

----------------------------------------------------------------------------
(* Claims about the felt codec, checked under SpecCodec.                    *)

RoundTripShapes == {Basic, Nested, WithSequence, WithArray}

(* C3: round trip without overrides: for every value of the record shapes  *)
(* Basic, Nested, WithSequence and WithArray over the bounded felts (the    *)
(* empty sequence included), from_felts(to_felts(v)) succeeds and equals v. *)
C3_RoundTrip ==
    (cd_pc = "decoded" /\ cd_lengths = None /\ cd_shape \in RoundTripShapes)
        => /\ cd_input = to_felts(cd_shape, cd_value).output
           /\ cd_result.err = ""
           /\ cd_result.value = cd_value

C3_Witness ==
    /\ cd_pc = "decoded"
    /\ cd_lengths = None
    /\ cd_shape = WithSequence
    /\ cd_value = <<<<11, 12>>, 2>>
    /\ cd_input = <<2, 11, 12, 2>>
    /\ cd_result.err = ""
    /\ cd_result.value = <<<<11, 12>>, 2>>

(* C4: length-prefix elision: for every record v with a sequence field a    *)
(* followed by a scalar field b, decoding the encoding of v without the     *)
(* length-prefix felt of a, under the override map {a: [len(a)]}, yields v; *)
(* and with an override {a: [n]} no felt of the stream is read as a length  *)
(* for a: a successful decode takes the first n felts as the elements of a  *)
(* and the next felt as b.                                                  *)
C4_PrefixElision ==
    (cd_pc = "decoded" /\ cd_shape = WithSequence /\ cd_lengths # None
                       /\ DOMAIN cd_lengths[1] = {"a"})
        => LET n == cd_lengths[1]["a"][1]
           IN /\ (cd_input = Tail(cd_felts) /\ n = Len(cd_value[1]))
                    => /\ cd_result.err = ""
                       /\ cd_result.value = cd_value
                       /\ cd_result.de.input = <<>>
              /\ cd_result.err = ""
                    => /\ cd_result.value[1] = SubSeq(cd_input, 1, n)
                       /\ cd_result.value[2] = cd_input[n + 1]
                       /\ cd_result.de.input
                             = SubSeq(cd_input, n + 2, Len(cd_input))
                       /\ cd_result.de.next_length = None

C4_Witness ==
    /\ cd_pc = "decoded"
    /\ cd_shape = WithSequence
    /\ cd_value = <<<<11, 12>>, 2>>
    /\ cd_felts = <<2, 11, 12, 2>>
    /\ cd_input = <<11, 12, 2>>
    /\ cd_lengths = Some([n \in {"a"} |-> <<2>>])
    /\ cd_result.err = ""
    /\ cd_result.value = cd_value
    /\ cd_result.de.input = <<>>

RECURSIVE Flatten(_, _)
RECURSIVE FlattenAll(_, _, _)

(* The in-order flattening by shape that C5 describes.                      *)
FlattenAll(shapes, values, n) ==
    IF n = 0 THEN <<>>
    ELSE FlattenAll(shapes, values, n - 1) \o Flatten(shapes[n], values[n])

Flatten(shape, v) ==
    CASE shape.kind \in {"felt", "u64"} -> <<v>>
      [] shape.kind \in {"seq", "iter"} ->
            <<Len(v)>> \o FlattenAll([i \in 1..Len(v) |-> shape.elem], v, Len(v))
      [] OTHER -> FlattenAll(shape.elems, v, Len(v))

(* C5: to_felts(value) is the in-order flattening of the value by shape: a  *)
(* scalar gives one felt, a variable-length sequence its element count and  *)
(* then its elements, a fixed-size tuple or array its elements with no      *)
(* length prefix, a named record its fields in declaration order with no    *)
(* tags; so {a: 1, b: {a: 11, b: 12}, c: 2} gives [1, 11, 12, 2], {a: [11,  *)
(* 12], b: 2} with a fixed-size a gives [11, 12, 2], and {int: 1, seq: [42, *)
(* 43]} gives [1, 2, 42, 43].                                               *)
C5_Flattening ==
    /\ cd_pc \in {"encoded", "decoded"} => cd_felts = Flatten(cd_shape, cd_value)
    /\ to_felts(Nested, <<1, <<11, 12>>, 2>>).output = <<1, 11, 12, 2>>
    /\ to_felts(WithArray, <<<<11, 12>>, 2>>).output = <<11, 12, 2>>
    /\ to_felts(Test, <<1, <<42, 43>>>>).output = <<1, 2, 42, 43>>

(* C5 on the shapes with no tuple struct in them whose sequences are of a   *)
(* length known beforehand.                                                 *)
C5_NoTupleStruct ==
    (cd_pc \in {"encoded", "decoded"} /\ cd_shape \notin {Pair, Streamed})
        => cd_felts = Flatten(cd_shape, cd_value)

----------------------------------------------------------------------------
(* Claims about the proof assembler, checked under SpecParse.               *)

(* The felts of the hex body that the decode read.                          *)
Consumed == Len(pp_json.proof_hex) - Len(pp_out.left)

(* C1: StarkProof::try_from(ProofJSON) returns a proof only when the        *)
(* commitment and witness decoded from the hex body through the layout      *)
(* lengths equal, element by element, the commitment and witness projected  *)
(* from the annotations; with one annotation value changed and the hex body *)
(* left as it is, the conversion fails.                                     *)
C1_AsStated ==
    (pp_pc = "converted" /\ pp_out.status = "ok")
        => /\ pp_out.proof.unsent_commitment
                = stark_unsent_commitment(pp_json.annotations)
           /\ pp_out.proof.witness = stark_witness(pp_json.annotations)

(* C1 as validate_hex has it: the binary reports a proof consistent only    *)
(* when the two paths agree.                                                *)
C1_ValidateHex ==
    (pp_pc = "validated" /\ pp_out.status = "consistent")
        => /\ pp_out.proof.unsent_commitment
                = stark_unsent_commitment(pp_json.annotations)
           /\ pp_out.proof.witness = stark_witness(pp_json.annotations)

(* C10: in StarkProof::try_from a successful decode with the override map   *)
(* built from the ProofStructure consumes exactly expected_len() felts, and *)
(* the conversion succeeds only if that number equals the number of felts   *)
(* in the decoded hex body.                                                 *)
C10_AsStated ==
    (pp_pc = "converted" /\ pp_out.status = "ok")
        => /\ Consumed = expected_len(pp_out.ps)
           /\ expected_len(pp_out.ps) = Len(pp_json.proof_hex)

(* C10, its first half alone: a successful decode consumes exactly          *)
(* expected_len() felts.                                                    *)
C10_Consumes ==
    (pp_pc = "converted" /\ pp_out.status = "ok")
        => Consumed = expected_len(pp_out.ps)


----------------------------------------------------------------------------
(* Error reporting of the layout calculator, checked under SpecLayout.      *)

(* The supplied total differs from expected_len() of the structure that the *)
(* call builds (the naive structure exists, so the lengths are exact).      *)
TotalMismatch ==
    /\ lc_pc = "done"
    /\ lc_proof_len # None
    /\ NaiveOutcome.status = "ok"
    /\ lc_proof_len[1] # expected_len(StructureOf(lc_params, lc_out.add.value))

(* C11: every structural mismatch (expected_len() differing from the        *)
(* supplied expected_total) reaches the caller as a typed, recoverable      *)
(* error value: the call neither aborts the program nor yields a structure. *)
C11_RecoverableError ==
    TotalMismatch => lc_out.status = "err"


----------------------------------------------------------------------------
(* Claims about the configuration functions, checked under SpecConfig.      *)

(* The overridable keys of the current map whose value fits a u32, and      *)
(* those whose value does not.                                              *)
PresentKeys ==
    IF cf_json.dynamic_params = None THEN {}
    ELSE OverridableKeys \cap DOMAIN cf_json.dynamic_params[1]

Unconvertible ==
    {key \in PresentKeys : u32_try_from(cf_json.dynamic_params[1][key]) = None}

(* The base constants overlaid by the map's values for the given keys.      *)
Overlaid(keys) ==
    [key \in OverridableKeys |->
        IF key \in keys THEN u32_try_from(cf_json.dynamic_params[1][key])[1]
        ELSE get_consts(cf_json.layout)[key]]

(* C12: get_dynamics_or_consts returns, for every layout and every map with *)
(* u32-convertible values, the base constants overlaid by the map: each of  *)
(* the four fields is the map's value when its key is present and the base  *)
(* constant when it is absent; other keys have no effect; an absent map     *)
(* gives the base constants verbatim.                                       *)
C12_Overlay ==
    (cf_pc = "consts" /\ Unconvertible = {})
        => /\ cf_out.status = "ok"
           /\ cf_out.value = Overlaid(PresentKeys)

(* What holds of the overlay: an absent map gives the base constants, and a *)
(* map that holds all four keys with convertible values gives its values,   *)
(* whatever other keys it holds.                                            *)
C12_AllPresent ==
    (cf_pc = "consts" /\ Unconvertible = {}
        /\ (cf_json.dynamic_params = None \/ PresentKeys = OverridableKeys))
        => /\ cf_out.status = "ok"
           /\ cf_out.value = Overlaid(PresentKeys)

(* A map that lacks one of the four keys gives none.                        *)
C12_AbsentKey ==
    (cf_pc = "consts" /\ cf_json.dynamic_params # None
        /\ PresentKeys # OverridableKeys)
        => cf_out.status = "err"

(* C13: get_dynamics_or_consts returns none whenever the map holds one of   *)
(* the four overridable keys with a value that cannot be converted to u32;  *)
(* the base constant is never substituted for such a value.                 *)
C13_Unconvertible ==
    (cf_pc = "consts" /\ Unconvertible # {}) => cf_out.status = "err"

(* What the code does with such a value when all four keys are present: the *)
(* base constant takes its place.                                           *)
C13_Substituted ==
    (cf_pc = "consts" /\ PresentKeys = OverridableKeys)
        => /\ cf_out.status = "ok"
           /\ cf_out.value = Overlaid(PresentKeys \ Unconvertible)


(* C19: public_input fails with an error whenever public_memory is empty;   *)
(* a result it returns holds the address and value of the first public      *)
(* memory element as its padding cell, never a cell defaulted to zero.      *)
C19_EmptyPublicMemory ==
    cf_pc = "input"
        => /\ cf_json.public_memory = <<>> => cf_out.status = "err"
           /\ cf_out.status = "ok"
                => /\ cf_json.public_memory # <<>>
                   /\ cf_out.value.padding_addr = cf_json.public_memory[1].address
                   /\ Some(cf_out.value.padding_value)
                        = from_hex_be(cf_json.public_memory[1].value)

C19_Witness ==
    /\ cf_pc = "input"
    /\ cf_json.public_memory = <<>>
    /\ IsPowerOf2(cf_json.n_steps)
    /\ cf_out = CfErr("Invalid public memory")

(* The product 16 * cpu_component_step * n_steps is a power of two exactly  *)
(* when cpu_component_step * n_steps is one.                                *)
StepProduct == get_consts(cf_json.layout).cpu_component_step * cf_json.n_steps

(* C20: a non-power-of-two input is reported as an error and never rounded: *)
(* stark_config fails when last_layer_degree_bound or 16 *                  *)
(* cpu_component_step * n_steps is zero or not a power of two, public_input *)
(* fails when n_steps is zero or not a power of two, and the logarithms     *)
(* they store on success are exact (2^log equals the input).                *)
C20_PowerOfTwo ==
    /\ (cf_pc = "config"
            /\ (~IsPowerOf2(cf_json.last_layer_degree_bound)
                    \/ ~IsPowerOf2(StepProduct)))
        => cf_out.status = "err"
    /\ (cf_pc = "config" /\ cf_out.status = "ok")
        => /\ Pow2(cf_out.value.fri.log_last_layer_degree_bound)
                = cf_json.last_layer_degree_bound
           /\ cf_out.value.log_trace_domain_size >= Log2(COMPONENT_HEIGHT)
           /\ Pow2(cf_out.value.log_trace_domain_size - Log2(COMPONENT_HEIGHT))
                = StepProduct
    /\ (cf_pc = "input" /\ ~IsPowerOf2(cf_json.n_steps))
        => cf_out.status = "err"
    /\ (cf_pc = "input" /\ cf_out.status = "ok")
        => Pow2(cf_out.value.log_n_steps) = cf_json.n_steps

(* The same, for the calls whose u32 arithmetic stays in range: the product *)
(* fits a u32 and no layer size falls below zero.                           *)
C20_InRange ==
    (/\ ~WideMul(ToWide(cf_json.n_steps),
                 COMPONENT_HEIGHT * get_consts(cf_json.layout).cpu_component_step).overflow
     /\ cf_out.status # "panic")
        => C20_PowerOfTwo


----------------------------------------------------------------------------
(* Further claims about the felt codec, checked under SpecCodec.            *)

(* The records with a sequence as their first field.                        *)
SequenceFirst == {WithSequence, Streamed}

(* C18: the length prefix of a variable-length sequence is written          *)
(* retroactively (a slot reserved, the elements written, the slot           *)
(* overwritten with their number), so encoding succeeds also when the       *)
(* length is not known before the elements are written, and the prefix      *)
(* equals the number of elements that follow it.                            *)
C18_RetroactivePrefix ==
    (cd_pc = "encoded" /\ cd_shape \in SequenceFirst)
        => /\ to_felts(cd_shape, cd_value).err = ""
           /\ Len(cd_felts) = Len(cd_value[1]) + 2
           /\ cd_felts[1] = Len(cd_value[1])
           /\ SubSeq(cd_felts, 2, Len(cd_felts) - 1) = cd_value[1]

(* What holds of the prefix: it is written before the elements, from the    *)
(* length the caller hands to serialize_seq, and without that length the    *)
(* encoding fails with nothing written.                                     *)
C18_PrefixFirst ==
    /\ (cd_pc = "encoded" /\ cd_shape = WithSequence)
        => /\ to_felts(cd_shape, cd_value).err = ""
           /\ cd_felts = <<Len(cd_value[1])>> \o cd_value[1] \o <<cd_value[2]>>
    /\ (cd_pc = "encoded" /\ cd_shape = Streamed)
        => to_felts(cd_shape, cd_value)
              = SerErr("LengthNotKnownAtSerialization", <<>>)


(* A decode with an override table has been made.                           *)
DecodedWithLengths == cd_pc \in {"decoded", "overridden"} /\ cd_lengths # None

(* The Deserializer as the decode left it holds a length in its slot that   *)
(* no sequence has consumed.                                                *)
PendingLength == cd_result.de.next_length # None

(* The names whose list in the Deserializer still holds an entry, and those *)
(* whose list is used up.                                                   *)
NamesWithEntry ==
    {name \in DOMAIN cd_result.de.lengths[1] : cd_result.de.lengths[1][name] # <<>>}

NamesUsedUp ==
    {name \in DOMAIN cd_result.de.lengths[1] : cd_result.de.lengths[1][name] = <<>>}

(* The records whose first field leaves the slot alone (a scalar or an      *)
(* array) and whose second field is named b.                                *)
ScalarFirst == {Basic, Nested, WithArray}

(* C14: during one decode, when the decoder reaches a named field that has  *)
(* a registered override (an entry left for its name) while the slot still  *)
(* holds a length no sequence has consumed, the decode fails with           *)
(* LengthSetButNotConsumed and returns no value, and the pending length is  *)
(* not overwritten.                                                         *)
C14_SlotNotConsumed ==
    DecodedWithLengths
        => /\ \A name \in NamesWithEntry :
                PendingLength
                    => apply_override(cd_result.de, name)
                         = DeErr("LengthSetButNotConsumed", cd_result.de)
           /\ (cd_shape \in ScalarFirst /\ DOMAIN cd_lengths[1] = {"a", "b"})
                => /\ cd_result.err = "LengthSetButNotConsumed"
                   /\ cd_result.value = <<>>
                   /\ cd_result.de.next_length = Some(cd_lengths[1]["a"][1])
                   /\ cd_result.de.lengths[1]["b"] = cd_lengths[1]["b"]
           /\ (cd_shape = Nested /\ DOMAIN cd_lengths[1] = {"a"}
                    /\ Len(cd_lengths[1]["a"]) = 2)
                => /\ cd_result.err = "LengthSetButNotConsumed"
                   /\ cd_result.value = <<>>
                   /\ cd_result.de.next_length = Some(cd_lengths[1]["a"][1])
           /\ cd_result.err = "LengthSetButNotConsumed"
                => /\ cd_result.value = <<>>
                   /\ PendingLength

C14_Witness ==
    /\ cd_pc = "overridden"
    /\ cd_shape = Basic
    /\ cd_value = <<11, 12>>
    /\ cd_lengths = Some([n \in {"a", "b"} |-> IF n = "a" THEN <<1>> ELSE <<2>>])
    /\ cd_result.err = "LengthSetButNotConsumed"
    /\ cd_result.de.next_length = Some(1)

(* A field whose list is used up, reached while the slot holds a length:    *)
(* the decode fails as well, with MoreLengthsThanVectors, and the slot      *)
(* keeps its length.                                                        *)
C14_UsedUp ==
    DecodedWithLengths
        => /\ \A name \in NamesUsedUp :
                apply_override(cd_result.de, name)
                    = DeErr("MoreLengthsThanVectors", cd_result.de)
           /\ (cd_shape = Nested /\ DOMAIN cd_lengths[1] = {"a"}
                    /\ Len(cd_lengths[1]["a"]) = 1)
                => /\ cd_result.err = "MoreLengthsThanVectors"
                   /\ cd_result.de.next_length = Some(cd_lengths[1]["a"][1])

(* The errors of a decode other than MoreLengthsThanVectors.                *)
OtherErrors ==
    {"NoDataLeft", "LengthSetButNotConsumed", "ValueExceededRange",
     "InvalidArrayLen", "Message"}

(* C15: from_felts_with_lengths fails with MoreLengthsThanVectors when more *)
(* override lengths are registered for a name than the decode consumes for  *)
(* it: entries left unused at the end of the decode are an error.           *)
C15_UnusedLengths ==
    (DecodedWithLengths /\ NamesWithEntry # {} /\ cd_result.err \notin OtherErrors)
        => cd_result.err = "MoreLengthsThanVectors"

(* What MoreLengthsThanVectors reports: a field reached whose list is used  *)
(* up, i.e. fewer lengths registered than the decode asks for.              *)
C15_ListUsedUp ==
    (DecodedWithLengths /\ cd_result.err = "MoreLengthsThanVectors")
        => NamesUsedUp # {}

(* The felts of the encoding that a decode without overrides reads.         *)
FeltsRead ==
    Len(cd_felts) - Len(from_felts(cd_shape, cd_felts).de.input)

(* C16: when the stream ends before the shape being decoded is complete (a  *)
(* scalar, a sequence element or a length prefix is needed and no felt is   *)
(* left), the decode returns NoDataLeft and no value, and the take on the   *)
(* empty stream leaves the cursor where it was.                             *)
C16_NoDataLeft ==
    (cd_pc = "truncated" /\ from_felts(cd_shape, cd_felts).err = ""
        /\ Len(cd_input) < FeltsRead)
        => /\ cd_result.err = "NoDataLeft"
           /\ cd_result.value = <<>>
           /\ cd_result.de.input = <<>>
           /\ take(cd_result.de) = DeErr("NoDataLeft", cd_result.de)

C16_Witness ==
    /\ cd_pc = "truncated"
    /\ cd_shape = WithSequence
    /\ cd_value = <<<<11, 12>>, 2>>
    /\ cd_input = <<2, 11>>
    /\ cd_result.err = "NoDataLeft"
    /\ cd_result.de.input = <<>>

----------------------------------------------------------------------------
(* The divisibility assumption of the layout calculator, checked under      *)
(* SpecLayout.                                                              *)

(* expected_total - L, L the expected_len() of the naive structure.         *)
Discrepancy == lc_proof_len[1] - expected_len(NaiveOutcome.ps)

(* 3 + the number of inner FRI layers.                                      *)
AuthenticationCount == 3 + (Len(lc_params.fri_step_list) - 1)

(* A call with an expected total whose discrepancy is negative or is not a  *)
(* multiple of the authentication count.                                    *)
Indivisible ==
    /\ lc_pc = "done"
    /\ lc_proof_len # None
    /\ NaiveOutcome.status = "ok"
    /\ \/ Discrepancy < 0
       \/ Discrepancy % AuthenticationCount # 0

(* C23: when expected_total is supplied and expected_total - L is negative  *)
(* or is not a multiple of 3 + the number of inner FRI layers,              *)
(* ProofStructure::new does not return (it aborts on the subtraction or on  *)
(* the equality assertion); every structure returned with an expected total *)
(* has expected_len() = expected_total.                                     *)
C23_NoReturn ==
    /\ Indivisible => lc_out.status = "panic"
    /\ (lc_pc = "done" /\ lc_proof_len # None /\ lc_out.status = "ok")
            => expected_len(lc_out.ps) = lc_proof_len[1]

(* What holds of such calls: a build with overflow checks aborts, and so    *)
(* does any build when the discrepancy is not negative; a structure whose   *)
(* counts are all exact has the expected total as its length.               *)
C23_Checked ==
    /\ (Indivisible /\ (lc_checks \/ Discrepancy >= 0)) => lc_out.status = "panic"
    /\ (lc_pc = "done" /\ lc_proof_len # None /\ lc_out.status = "ok")
            => expected_len(lc_out.ps) = lc_proof_len[1]

(* Without overflow checks a negative discrepancy wraps, and the call       *)
(* returns counts that wrapped when 2^64 - (L - expected_total) is a        *)
(* multiple of the authentication count.                                    *)
C23_WrappedReturn ==
    (Indivisible /\ ~lc_checks /\ Discrepancy < 0
        /\ WrappedRem(0 - Discrepancy, AuthenticationCount) = 0)
        => lc_out.status = "wrapped"

----------------------------------------------------------------------------
(* The override lists and the override slot, checked under SpecCodec.       *)

(* A witness body has been decoded with an override table.                  *)
BodyOfWitness == cd_pc = "body" /\ cd_shape = WitnessTail

(* The layers of the witness encoded, and the layers the decode returned.   *)
LayersGiven == cd_value[1][1]
LayersDecoded == cd_result.value[1][1]

(* The table try_from registers for the witness encoded.                    *)
HonestTable ==
    [fri_witness |-> <<Len(LayersGiven)>>,
     leaves |-> LeavesOf(LayersGiven),
     table_witness |-> TableWitnessOf(LayersGiven)]

(* The honest table with the list of `name` an entry short.                 *)
EntryShort(name) ==
    [HonestTable EXCEPT ![name] = SubSeq(@, 1, Len(@) - 1)]

(* The felts of the layers before the last one.                             *)
BeforeLastLayer ==
    Body(SeqOf(FriLayerWitness), SubSeq(LayersGiven, 1, Len(LayersGiven) - 1))

(* C24: override lengths are keyed by bare field name and consumed first-in *)
(* first-out: of the fields of one decode that share a name with an         *)
(* override list (leaves and table_witness of each FRI layer witness), the  *)
(* k-th in decode order receives the k-th entry, each entry is used at most *)
(* once, and a (k+1)-th such field reached when k entries were registered   *)
(* fails the decode; no length prefix is read from the stream instead.      *)
C24_FirstInFirstOut ==
    BodyOfWitness
        => /\ cd_result.err = ""
                => /\ Len(LayersDecoded) = cd_lengths[1].fri_witness[1]
                   /\ \A name \in {"leaves", "table_witness"} :
                        /\ Len(LayersDecoded) <= Len(cd_lengths[1][name])
                        /\ cd_result.de.lengths[1][name]
                            = SubSeq(cd_lengths[1][name], Len(LayersDecoded) + 1,
                                     Len(cd_lengths[1][name]))
                   /\ \A k \in 1..Len(LayersDecoded) :
                        /\ Len(LayersDecoded[k][1]) = cd_lengths[1].leaves[k]
                        /\ Len(LayersDecoded[k][2]) = cd_lengths[1].table_witness[k]
           /\ cd_lengths[1] = HonestTable
                => /\ cd_result.err = ""
                   /\ cd_result.value = cd_value
                   /\ cd_result.de.input = <<>>
           /\ (LayersGiven # <<>> /\ cd_lengths[1] = EntryShort("leaves"))
                => /\ cd_result.err = "MoreLengthsThanVectors"
                   /\ cd_result.value = <<>>
                   /\ cd_input = BeforeLastLayer \o cd_result.de.input
           /\ (LayersGiven # <<>> /\ cd_lengths[1] = EntryShort("table_witness"))
                => /\ cd_result.err = "MoreLengthsThanVectors"
                   /\ cd_result.value = <<>>
                   /\ cd_input = BeforeLastLayer \o LayersGiven[Len(LayersGiven)][1]
                                    \o cd_result.de.input

C24_Witness ==
    /\ BodyOfWitness
    /\ LayersGiven = << << <<11>>, <<42, 43>> >>, << <<11, 12>>, <<42>> >> >>
    /\ cd_input = <<11, 42, 43, 11, 12, 42>>
    /\ cd_lengths[1] = HonestTable
    /\ cd_lengths[1].leaves = <<1, 2>>
    /\ cd_result.value = cd_value

C24_WitnessShort ==
    /\ BodyOfWitness
    /\ LayersGiven = << << <<11>>, <<42, 43>> >>, << <<11, 12>>, <<42>> >> >>
    /\ cd_lengths[1] = EntryShort("leaves")
    /\ cd_result.err = "MoreLengthsThanVectors"
    /\ cd_result.de.input = <<11, 12, 42>>

(* The Deserializer a decode starts from, and the one it left.              *)
DeserializerAtStart ==
    IF cd_lengths = None THEN Deserializer_from_felts(cd_input)
    ELSE Deserializer_from_felts_with_lengths(cd_input, cd_lengths[1])

Deserializers == {DeserializerAtStart, cd_result.de}

FieldNames ==
    OverrideNames \cup {"int", "c", "fri_witness", "layers", "leaves", "table_witness"}

(* The name has a list registered in de with an entry left.                 *)
Registered(de, name) ==
    /\ de.lengths # None
    /\ name \in DOMAIN de.lengths[1]
    /\ de.lengths[1][name] # <<>>

(* Every field of the shape that carries one of the names is a              *)
(* variable-length sequence.                                                *)
RECURSIVE OverriddenAreSequences(_, _)
OverriddenAreSequences(shape, names) ==
    CASE shape.kind \in {"felt", "u64"} -> TRUE
      [] shape.kind \in {"seq", "iter"} -> OverriddenAreSequences(shape.elem, names)
      [] shape.kind = "struct" ->
            \A i \in 1..Len(shape.fields) :
                /\ shape.fields[i] \in names => shape.elems[i].kind \in {"seq", "iter"}
                /\ OverriddenAreSequences(shape.elems[i], names)
      [] OTHER ->
            \A i \in 1..Len(shape.elems) : OverriddenAreSequences(shape.elems[i], names)

(* C25: the override slot follows Empty -> Pending -> Empty within one      *)
(* decode: Empty when the call starts; Pending only through a named field   *)
(* whose list has an entry left, reached while the slot is Empty; Empty     *)
(* again when the next variable-length sequence starts and takes the        *)
(* length; never more than one length; and Empty after a decode that        *)
(* succeeds on a shape whose overridden fields are all variable-length      *)
(* sequences.                                                               *)
C25_SlotStates ==
    cd_pc \in {"decoded", "overridden", "truncated", "trailing", "body"}
        => /\ DeserializerAtStart.next_length = None
           /\ \A de \in Deserializers :
                /\ Len(de.next_length) <= 1
                /\ \A name \in FieldNames :
                     LET after == apply_override(de, name).de
                     IN /\ after.next_length # de.next_length
                            => /\ de.next_length = None
                               /\ Registered(de, name)
                               /\ after.next_length = Some(de.lengths[1][name][1])
                        /\ (de.next_length = None /\ Registered(de, name))
                            => after.next_length # None
                /\ DeserSeq_new(de).de.next_length = None
                /\ DeserSeq_new(de).left = de.next_length
                /\ DeserSeq_new_with_len(de, 2).de.next_length = de.next_length
           /\ (cd_lengths # None /\ cd_result.err = ""
                    /\ OverriddenAreSequences(cd_shape, DOMAIN cd_lengths[1]))
                => cd_result.de.next_length = None

C25_Witness ==
    /\ cd_pc = "decoded"
    /\ cd_shape = WithSequence
    /\ cd_value = <<<<11, 12>>, 2>>
    /\ cd_input = <<11, 12, 2>>
    /\ cd_lengths = Some([n \in {"a"} |-> <<2>>])
    /\ cd_result.err = ""
    /\ cd_result.value = cd_value
    /\ cd_result.de.next_length = None
    /\ cd_result.de.lengths[1]["a"] = <<>>

(* A record whose first field is a scalar or an array and whose second      *)
(* field is a sequence has been decoded from its felts without a prefix,    *)
(* a length registered for the first field.                                 *)
BodyOfRecord == cd_pc = "body" /\ cd_shape \in {Test, ArrayThenSeq}

LengthGiven == cd_lengths[1][cd_shape.fields[1]][1]

(* C26: a pending override length is consumed by the next variable-length   *)
(* sequence the decoder starts, whichever field it belongs to: when the     *)
(* named field is a record (fri_witness, whose length the inner layers      *)
(* sequence takes), a scalar or a fixed-size array, the field is decoded    *)
(* normally, the length stays pending and the first later sequence takes it *)
(* in place of its own length prefix.                                       *)
C26_NextSequenceTakes ==
    /\ BodyOfRecord
        => IF LengthGiven <= Len(cd_value[2])
               THEN /\ cd_result.err = ""
                    /\ cd_result.value[1] = cd_value[1]
                    /\ cd_result.value[2] = SubSeq(cd_value[2], 1, LengthGiven)
                    /\ cd_result.de.next_length = None
                    /\ cd_result.de.input
                         = SubSeq(cd_value[2], LengthGiven + 1, Len(cd_value[2]))
           ELSE cd_result.err = "NoDataLeft"
    /\ BodyOfWitness
        => /\ cd_result.err = ""
                => /\ Len(LayersDecoded) = cd_lengths[1].fri_witness[1]
                   /\ cd_result.de.lengths[1].fri_witness = <<>>
                   /\ cd_result.de.next_length = None
           /\ cd_lengths[1] = HonestTable => cd_result.value = cd_value
    /\ (cd_pc = "decoded" /\ cd_shape \in {Basic, WithArray} /\ cd_input = cd_felts
            /\ cd_lengths # None /\ DOMAIN cd_lengths[1] = {"a"})
        => /\ cd_result.err = ""
           /\ cd_result.value = cd_value
           /\ cd_result.de.next_length = Some(cd_lengths[1]["a"][1])

C26_Witness ==
    /\ cd_pc = "body"
    /\ cd_shape = ArrayThenSeq
    /\ cd_value = << <<1, 2>>, <<11, 12>> >>
    /\ cd_input = <<1, 2, 11, 12>>
    /\ cd_lengths = Some([n \in {"a"} |-> <<2>>])
    /\ cd_result.err = ""
    /\ cd_result.value = cd_value
    /\ cd_result.de.next_length = None

C26_WitnessScalar ==
    /\ cd_pc = "body"
    /\ cd_shape = Test
    /\ cd_value = <<1, <<42, 43>>>>
    /\ cd_input = <<1, 42, 43>>
    /\ cd_lengths = Some([n \in {"int"} |-> <<2>>])
    /\ cd_result.value = cd_value

----------------------------------------------------------------------------
(* Static and dynamic layout constants, checked under SpecConfig.           *)

(* The dynamic-parameter map holds the four overridable keys, so that       *)
(* get_dynamics_or_consts returns an overlay.                               *)
Overridden == PresentKeys = OverridableKeys

(* The same JSON with another dynamic-parameter map.                        *)
WithDynamicParams(d) == [cf_json EXCEPT !.dynamic_params = d]

(* C28: the layout calculator and the trace-domain computation read only    *)
(* the layout's static constants: for every dynamic-parameter map           *)
(* ProofStructure::new returns first_layer_queries = n_queries * static     *)
(* num_columns_first and composition_decommitment = n_queries * static      *)
(* num_columns_second, and log_trace_domain_size uses the static            *)
(* cpu_component_step, also when the map overrides these fields and the     *)
(* n_columns of StarkConfig carry the overridden values.                    *)
C28_StaticConstants ==
    /\ (cf_pc = "structure" /\ cf_out.status = "ok" /\ cf_out.value.status = "ok")
        => /\ cf_out.value.ps.first_layer_queries
                = cf_json.n_queries * get_consts(cf_json.layout).num_columns_first
           /\ cf_out.value.ps.composition_decommitment
                = cf_json.n_queries * get_consts(cf_json.layout).num_columns_second
           /\ \A d \in {None, AllConvertible} :
                cf_out.value
                    \in ProofStructure_new(ProofCharacteristics(WithDynamicParams(d)),
                                           None, cf_checks)
    /\ cf_pc = "config"
        => /\ \A d \in {None, AllConvertible} :
                log_trace_domain_size(WithDynamicParams(d), cf_checks)
                    = log_trace_domain_size(cf_json, cf_checks)
           /\ cf_out.status = "ok"
                => /\ cf_out.value.log_trace_domain_size
                        = log_trace_domain_size(WithDynamicParams(None), cf_checks).value
                   /\ Overridden
                        => /\ cf_out.value.traces.original.n_columns
                                = Overlaid(PresentKeys \ Unconvertible).num_columns_first
                           /\ cf_out.value.traces.interaction.n_columns
                                = Overlaid(PresentKeys \ Unconvertible).num_columns_second

(* The map overrides cpu_component_step and the column counts with 5, a     *)
(* value that would leave 16 * 5 * n_steps no power of two; stark_config    *)
(* returns the overridden column counts and the static trace domain.        *)
C28_Witness ==
    /\ cf_pc = "config"
    /\ cf_json.layout = "recursive"
    /\ cf_json.dynamic_params = AllConvertible
    /\ cf_json.n_steps = 4
    /\ cf_out.status = "ok"
    /\ cf_out.value.traces.original.n_columns = 5
    /\ get_consts(cf_json.layout).num_columns_first # 5
    /\ cf_out.value.log_trace_domain_size = 6

C28_WitnessStructure ==
    /\ cf_pc = "structure"
    /\ cf_json.layout = "recursive"
    /\ cf_json.dynamic_params = AllConvertible
    /\ cf_out.status = "ok"
    /\ cf_out.value.status = "ok"
    /\ cf_out.value.ps.first_layer_queries
            = 16 * get_consts("recursive").num_columns_first

----------------------------------------------------------------------------
(* C22: log2_if_power_of_2 on every u32.                                    *)

(* x = 2^k, told on the two limbs of x, for 0 <= k <= 31.                   *)
IsPow2(x, k) ==
    IF k < U32Bits \div 2
        THEN x.hi = 0 /\ x.lo = Pow2(k)
        ELSE x.lo = 0 /\ x.hi = Pow2(k - (U32Bits \div 2))

(* C22: log2_if_power_of_2(x) returns Some(k) exactly when x = 2^k for some *)
(* 0 <= k <= 31, with that k, and None for 0 and for every x that is not a  *)
(* power of two.                                                            *)
C22_ExactLog ==
    ut_pc = "done" =>
        /\ \A k \in 0..(U32Bits - 1) : (ut_out = Some(k)) <=> IsPow2(ut_x, k)
        /\ (ut_out = None) <=> ~(\E k \in 0..(U32Bits - 1) : IsPow2(ut_x, k))
        /\ (ut_x.hi = 0 /\ ut_x.lo = 0) => ut_out = None

C22_Witness ==
    /\ ut_pc = "done"
    /\ ut_x = [hi |-> Pow2(12), lo |-> 0]
    /\ ut_out = Some(28)

C22_WitnessZero ==
    /\ ut_pc = "done"
    /\ ut_x = [hi |-> 0, lo |-> 0]
    /\ ut_out = None

C22_WitnessMixed ==
    /\ ut_pc = "done"
    /\ ut_x = [hi |-> 1, lo |-> 1]
    /\ ut_out = None

----------------------------------------------------------------------------
(* C21, C27: the program and the output cut out of the main page.           *)

(* The index of the segment the extraction run stands on needs.             *)
SegmentNeeded ==
    IF ex_pc = "program" /\ ex_version = "Cairo0"
        THEN EXECUTION_SEGMENT_OFFSET ELSE OUTPUT_SEGMENT_OFFSET

Extracted == ex_pc \in {"output", "program"}

(* C21: extract_output and extract_program return an error value, with no   *)
(* panic and no partial result, whenever the segment index they need is     *)
(* absent from the segments: index 2 for extract_output and for Cairo       *)
(* programs, index 1 for Cairo0 programs.                                   *)
C21_MissingSegment ==
    (Extracted /\ Len(ex_proof.segments) <= SegmentNeeded) =>
        /\ ex_out.status = "err"
        /\ ex_out.values = <<>>
        /\ ex_out.hash = <<>>
        /\ ex_out.error = IF ex_pc = "output" THEN "Output segment not found"
                          ELSE "Execution segment not found"

(* Two segments only, and a main page with cells: the output and the Cairo  *)
(* program both lack their segment.                                         *)
C21_Witness ==
    /\ ex_pc = "output"
    /\ Len(ex_proof.segments) = OUTPUT_SEGMENT_OFFSET
    /\ Len(ex_proof.main_page) = MaxMainPage
    /\ ex_out.status = "err"

C21_WitnessCairo0 ==
    /\ ex_pc = "program"
    /\ ex_version = "Cairo0"
    /\ Len(ex_proof.segments) = EXECUTION_SEGMENT_OFFSET
    /\ ex_out.status = "err"

(* With the segment there the same calls go on to the arithmetic.           *)
C21_WitnessPresent ==
    /\ ex_pc = "program"
    /\ ex_version = "Cairo0"
    /\ Len(ex_proof.segments) = OUTPUT_SEGMENT_OFFSET
    /\ ex_out.status # "err"

(* stop_ptr - begin_addr of segment index 2 exists and is at most the       *)
(* length of the main page.                                                 *)
OutputFits(proof) ==
    /\ Len(proof.segments) > OUTPUT_SEGMENT_OFFSET
    /\ LET output_segment == proof.segments[OUTPUT_SEGMENT_OFFSET + 1]
       IN /\ output_segment.begin_addr <= output_segment.stop_ptr
          /\ output_segment.stop_ptr - output_segment.begin_addr
                <= Len(proof.main_page)

OutputLen(proof) ==
    proof.segments[OUTPUT_SEGMENT_OFFSET + 1].stop_ptr
        - proof.segments[OUTPUT_SEGMENT_OFFSET + 1].begin_addr

PageValues(proof) == [i \in 1..Len(proof.main_page) |-> proof.main_page[i].value]

(* C27: when the output length is at most the length of the main page, the  *)
(* Cairo program followed by the program output is the sequence of all      *)
(* main page values in page order: the program is the first                 *)
(* main_page.len() - output_len values and the output the last output_len.  *)
C27_ProgramThenOutput ==
    (Extracted /\ OutputFits(ex_proof)) =>
        LET program == extract_program(ex_proof, "Cairo", ex_checks)
            output == extract_output(ex_proof, ex_checks)
            all == PageValues(ex_proof)
            output_len == OutputLen(ex_proof)
        IN /\ program.status = "ok"
           /\ output.status = "ok"
           /\ program.values \o output.values = all
           /\ program.values = SubSeq(all, 1, Len(all) - output_len)
           /\ output.values = SubSeq(all, Len(all) - output_len + 1, Len(all))
           /\ ex_pc = "output" => ex_out = output
           /\ (ex_pc = "program" /\ ex_version = "Cairo") => ex_out = program

(* A page of three cells split into one program cell and two output cells.  *)
C27_Witness ==
    /\ ex_pc = "program"
    /\ ex_version = "Cairo"
    /\ OutputFits(ex_proof)
    /\ Len(ex_proof.main_page) = MaxMainPage
    /\ OutputLen(ex_proof) = 2
    /\ ex_out.status = "ok"
    /\ Len(ex_out.values) = MaxMainPage - 2

C27_WitnessOutput ==
    /\ ex_pc = "output"
    /\ OutputFits(ex_proof)
    /\ OutputLen(ex_proof) = 2
    /\ ex_out.status = "ok"
    /\ ex_out.values = <<11, 12>>

(* An output longer than the page, or a stop_ptr below begin_addr: a panic  *)
(* in every build.                                                          *)
C27_OutsidePanics ==
    (Extracted /\ Len(ex_proof.segments) > OUTPUT_SEGMENT_OFFSET
        /\ ~OutputFits(ex_proof)
        /\ (ex_pc = "output" \/ ex_version = "Cairo")) =>
        ex_out.status = "panic"

----------------------------------------------------------------------------
(* C30: wait_for on its own.                                                *)

Succeeded(status) ==
    /\ status.status \in {"AcceptedOnL2", "AcceptedOnL1"}
    /\ status.execution_status = "Succeeded"

Unsettled(status) == status.status \in {"none", "Err", "Received"}

TimeoutError == RfErr("Transaction not mined in 360 seconds.")

(* What wait_for returned, told from the last reply of the provider.        *)
C30_Returned ==
    /\ rf_pc = "returned" =>
        /\ (rf_out.status = "ok") <=> Succeeded(rf_reply)
        /\ rf_out.status = "ok" => Len(rf_sent) \in rf_confirmed
        /\ rf_reply.status = "Rejected" => rf_out = RfErr("Transaction rejected.")
        /\ rf_reply.execution_status = "Reverted"
                => rf_out = RfErr("Transaction failed with.")
        /\ Unsettled(rf_reply)
                => (rf_out = TimeoutError /\ rf_elapsed > wait_for_secs)
        /\ rf_out = TimeoutError => rf_elapsed > wait_for_secs
    /\ rf_pc = "wait" => Unsettled(rf_reply)

(* One round: past 360 seconds at its start it returns the timeout error    *)
(* without a query; otherwise a failed query or Received polls again, with  *)
(* the clock moved on.                                                      *)
C30_Round ==
    rf_pc = "wait" =>
        /\ rf_elapsed > wait_for_secs
                => (rf_pc' = "returned" /\ rf_out' = TimeoutError
                    /\ rf_reply' = rf_reply)
        /\ (rf_elapsed <= wait_for_secs /\ rf_reply'.status \in {"Err", "Received"})
                => (rf_pc' = "wait" /\ rf_elapsed' > rf_elapsed)
        /\ (rf_elapsed <= wait_for_secs /\ ~Unsettled(rf_reply'))
                => rf_pc' = "returned"

(* C30: wait_for returns Ok only after the provider has reported the        *)
(* transaction as AcceptedOnL2 or AcceptedOnL1 with execution status        *)
(* Succeeded; it returns an error on Rejected, on Reverted, and when more   *)
(* than 360 seconds have elapsed at the start of a polling round; on        *)
(* Received or a failed query it polls again, and every call eventually     *)
(* returns.                                                                 *)
C30_WaitFor ==
    /\ []C30_Returned
    /\ [][C30_Round]_vars
    /\ (rf_pc = "wait") ~> (rf_pc = "returned")

(* Returned Ok after rounds that polled again.                              *)
C30_Witness ==
    /\ rf_pc = "returned"
    /\ rf_call = "wait_for"
    /\ rf_out.status = "ok"
    /\ rf_reply.status = "AcceptedOnL1"
    /\ rf_elapsed > 0

(* Timed out: every round up to 360 seconds polled again.                   *)
C30_WitnessTimeout ==
    /\ rf_pc = "returned"
    /\ rf_call = "wait_for"
    /\ rf_tick = 1
    /\ rf_elapsed = wait_for_secs + 1
    /\ rf_out = TimeoutError

C30_WitnessReverted ==
    /\ rf_pc = "returned"
    /\ rf_call = "wait_for"
    /\ rf_reply.execution_status = "Reverted"
    /\ rf_out.status = "err"

----------------------------------------------------------------------------
(* C29: register_fact, from the serialized proof to the registration.       *)

IsFragment(tx) == tx.selector = "publish_fragment"
IsRegistration(tx) == tx.selector = "verify_and_register_fact_from_fragments"

(* The felts of the fragments among the first n transactions sent, in the   *)
(* order of publication.                                                    *)
RECURSIVE Published(_)
Published(n) ==
    IF n = 0 THEN <<>>
    ELSE Published(n - 1)
            \o (IF IsFragment(rf_sent[n]) THEN Tail(rf_sent[n].calldata) ELSE <<>>)

IsPrefix(s, t) == Len(s) <= Len(t) /\ s = SubSeq(t, 1, Len(s))

(* Every fragment sent is [length, felts...] with 1..1500 felts, the        *)
(* fragments sent so far are the proof up to where they end, and the        *)
(* transactions carry the nonces n, n+1, ...                                *)
C29_Fragments ==
    /\ \A i \in 1..Len(rf_sent) :
        /\ rf_sent[i].nonce = rf_account.nonce + (i - 1)
        /\ IsFragment(rf_sent[i]) =>
            /\ rf_sent[i].calldata[1] = Len(rf_sent[i].calldata) - 1
            /\ Len(rf_sent[i].calldata) - 1 \in 1..FragmentSize
    /\ IsPrefix(Published(Len(rf_sent)), rf_proof)

(* The registration is the last transaction, sent after every fragment of   *)
(* the whole proof was reported as succeeded, with the number of fragments, *)
(* their hashes in order, and 1.                                            *)
C29_Registration ==
    \A j \in 1..Len(rf_sent) :
        IsRegistration(rf_sent[j]) =>
            /\ j = Len(rf_sent)
            /\ \A i \in 1..(j - 1) : IsFragment(rf_sent[i]) /\ i \in rf_confirmed
            /\ Published(j - 1) = rf_proof
            /\ rf_sent[j].nonce = rf_account.nonce + (j - 1)
            /\ rf_sent[j].calldata =
                    <<j - 1>>
                    \o [i \in 1..(j - 1) |->
                            poseidon_hash_many(Tail(rf_sent[i].calldata))]
                    \o <<1>>

(* After a fragment that did not succeed nothing more is sent.              *)
C29_StopsAtFailure ==
    \A i \in 1..Len(rf_sent) :
        (IsFragment(rf_sent[i]) /\ i \notin rf_confirmed) =>
            /\ i = Len(rf_sent)
            /\ rf_pc \in {"wait", "returned", "failed"}
            /\ rf_call = "publish_fragment"

(* C29: register_fact publishes the proof as consecutive fragments of at    *)
(* most 1500 felts whose concatenation is the proof, each as [length,       *)
(* felts...] with nonces n, n+1, ...; the registration is sent only after   *)
(* every fragment was confirmed as succeeded, with the next nonce and       *)
(* [number of fragments, hashes in order, 1], and never after a fragment    *)
(* failed or timed out.                                                     *)
C29_Protocol == C29_Fragments /\ C29_Registration /\ C29_StopsAtFailure

(* Three fragments of 1500, 1500 and 1 felts, and the registration done.    *)
C29_Witness ==
    /\ rf_pc = "done"
    /\ Len(rf_proof) = 2 * FragmentSize + 1
    /\ Len(rf_sent) = 4
    /\ IsRegistration(rf_sent[4])
    /\ rf_sent[4].nonce = rf_account.nonce + 3
    /\ rf_account.nonce = 7

(* The second fragment timed out: main ended with two transactions sent.    *)
C29_WitnessTimeout ==
    /\ rf_pc = "failed"
    /\ Len(rf_proof) = 2 * FragmentSize + 1
    /\ Len(rf_sent) = 2
    /\ rf_out = TimeoutError

C29_WitnessReverted ==
    /\ rf_pc = "failed"
    /\ Len(rf_sent) = 1
    /\ rf_reply.execution_status = "Reverted"

============================================================================
